---- MODULE Spec2Model ----
(***************************************************************************)
(* ReAct coding agent: the loop controller and finish guards of            *)
(* ReactAgent.run (agent.py), the textual function-call parser             *)
(* (response_parser.py) and the message list they write to.                *)
(*                                                                         *)
(* Texts are TLA+ strings handled character by character, as the Python    *)
(* code handles them (rfind, strip, split, lower/upper, substring tests).  *)
(* Message timestamps (time.time()) are left out: nothing reads them.      *)
(***************************************************************************)
EXTENDS Integers, Sequences, FiniteSets, TLC

(***************************************************************************)
(* Bounds of the model.                                                    *)
(***************************************************************************)
\* loop iterations over all run calls on the agent: a run with max_steps = k
\* starts only when k more iterations fit
MaxCalls == 4
\* number of add_functions calls made after construction
MaxAdds == 1
\* number of run calls made on the agent
MaxRuns == 2

(***************************************************************************)
(* String helpers: Python str methods used by the code.                    *)
(***************************************************************************)
UpperAlpha == "ABCDEFGHIJKLMNOPQRSTUVWXYZ"
LowerAlpha == "abcdefghijklmnopqrstuvwxyz"

\* s[i:j] with 0-based, end-exclusive, in-range indices (i > j gives "")
Slice(s, i, j) == SubSeq(s, i + 1, j)

\* m in s
Contains(s, m) ==
    \E i \in 1..(Len(s) - Len(m) + 1) : SubSeq(s, i, i + Len(m) - 1) = m

\* s.rfind(m): 0-based index of the last occurrence, -1 when absent
RFind(s, m) ==
    LET P == {i \in 0..(Len(s) - Len(m)) : SubSeq(s, i + 1, i + Len(m)) = m}
    IN  IF P = {} THEN -1 ELSE CHOOSE i \in P : \A j \in P : j <= i

MapChar(c, from, to) ==
    LET P == {i \in 1..Len(from) : SubSeq(from, i, i) = c}
    IN  IF P = {} THEN c ELSE LET i == CHOOSE k \in P : TRUE IN SubSeq(to, i, i)

RECURSIVE MapStr(_, _, _)
MapStr(s, from, to) ==
    IF Len(s) = 0 THEN ""
    ELSE MapChar(SubSeq(s, 1, 1), from, to) \o MapStr(SubSeq(s, 2, Len(s)), from, to)

\* s.lower(), s.upper()
Lower(s) == MapStr(s, UpperAlpha, LowerAlpha)
Upper(s) == MapStr(s, LowerAlpha, UpperAlpha)

IsSpace(c) == c \in {" ", "\n", "\t", "\r"}

RECURSIVE LStrip(_)
LStrip(s) ==
    IF Len(s) > 0 /\ IsSpace(SubSeq(s, 1, 1)) THEN LStrip(SubSeq(s, 2, Len(s))) ELSE s

RECURSIVE RStrip(_)
RStrip(s) ==
    IF Len(s) > 0 /\ IsSpace(SubSeq(s, Len(s), Len(s)))
    THEN RStrip(SubSeq(s, 1, Len(s) - 1)) ELSE s

\* strip that leaves trailing whitespace in place
Strip_LeftOnly(s) == LStrip(s)

\* s.strip()
Strip(s) == LStrip(RStrip(s))

\* index (1-based) of the first "\n" of s, 0 when there is none
FirstNL(s) ==
    LET P == {i \in 1..Len(s) : SubSeq(s, i, i) = "\n"}
    IN  IF P = {} THEN 0 ELSE CHOOSE i \in P : \A j \in P : i <= j

\* s.split('\n'): never empty, "" gives <<"">>; the k-th piece lies between
\* the (k-1)-th and the k-th newline
SplitLines(s) ==
    LET NL == {i \in 1..Len(s) : SubSeq(s, i, i) = "\n"}
        at == [k \in 0..(Cardinality(NL) + 1) |->
                 IF k = 0 THEN 0
                 ELSE IF k > Cardinality(NL) THEN Len(s) + 1
                 ELSE CHOOSE i \in NL : Cardinality({j \in NL : j < i}) = k - 1]
    IN  [k \in 1..(Cardinality(NL) + 1) |-> SubSeq(s, at[k - 1] + 1, at[k] - 1)]

\* '\n'.join(lines), joining the two halves of the list
RECURSIVE JoinLines(_)
JoinLines(ls) ==
    IF Len(ls) = 0 THEN ""
    ELSE IF Len(ls) = 1 THEN ls[1]
    ELSE LET h == Len(ls) \div 2
         IN  JoinLines(SubSeq(ls, 1, h)) \o "\n" \o JoinLines(SubSeq(ls, h + 1, Len(ls)))

(***************************************************************************)
(* ResponseParser (response_parser.py).                                    *)
(***************************************************************************)
BEGIN_CALL == "----BEGIN_FUNCTION_CALL----"
END_CALL == "----END_FUNCTION_CALL----"
ARG_SEP == "----ARG----"
VALUE_SEP == "----VALUE----"

\* A Python dict as the sequence of its <<key, value>> items in insertion
\* order: d[k] = v overwrites in place when k is present, else appends.
DictKeys(d) == {d[i][1] : i \in 1..Len(d)}

\* d[k] = v as "delete k, then insert": a present key moves to the end
DictSet_MoveToEnd(d, k, v) ==
    LET keep == {i \in 1..Len(d) : d[i][1] # k}
        nth(n) == CHOOSE i \in keep : Cardinality({j \in keep : j <= i}) = n
    IN  Append([n \in 1..Cardinality(keep) |-> d[nth(n)]], <<k, v>>)

DictSet(d, k, v) ==
    IF k \in DictKeys(d)
    THEN [i \in 1..Len(d) |-> IF d[i][1] = k THEN <<k, v>> ELSE d[i]]
    ELSE Append(d, <<k, v>>)

DictGet(d, k, default) ==
    IF k \in DictKeys(d)
    THEN LET i == CHOOSE j \in 1..Len(d) : d[j][1] = k IN d[i][2]
    ELSE default

\* index of the first line at or after i that is an ARG_SEP line, Len+1 if none
RECURSIVE ValueEnd(_, _)
ValueEnd(lines, i) ==
    IF i > Len(lines) THEN i
    ELSE IF Strip(lines[i]) = ARG_SEP THEN i
    ELSE ValueEnd(lines, i + 1)

\* the while loop of parse: i is the 1-based index of the line examined next
RECURSIVE ParseArgs(_, _, _)
ParseArgs(lines, i, arguments) ==
    IF i > Len(lines) THEN arguments
    ELSE IF Strip(lines[i]) = ARG_SEP
    THEN IF i + 1 > Len(lines) THEN arguments
         ELSE LET arg_name == Strip(lines[i + 1])
              IN  IF i + 2 <= Len(lines) /\ Strip(lines[i + 2]) = VALUE_SEP
                  THEN LET e == ValueEnd(lines, i + 3)
                           value == Strip(JoinLines(SubSeq(lines, i + 3, e - 1)))
                       IN  ParseArgs(lines, e, DictSet(arguments, arg_name, value))
                  ELSE ParseArgs(lines, i + 2, DictSet(arguments, arg_name, ""))
    ELSE ParseArgs(lines, i + 1, arguments)

\* s.find(m): 0-based index of the first occurrence, -1 when absent
Find(s, m) ==
    LET P == {i \in 0..(Len(s) - Len(m)) : SubSeq(s, i + 1, i + Len(m)) = m}
    IN  IF P = {} THEN -1 ELSE CHOOSE i \in P : \A j \in P : i <= j

\* parse anchored at the first begin marker
Parse_FirstBegin(text) ==
    LET call_start == Find(text, BEGIN_CALL)
        call_end == RFind(text, END_CALL)
    IN  IF call_start = -1 \/ call_end = -1 \/ call_end < call_start
        THEN [ok |-> FALSE, error |-> "No valid function call found",
              thought |-> "", name |-> "", arguments |-> <<>>]
        ELSE LET thought == Strip(Slice(text, 0, call_start))
                 call_text == Strip(Slice(text, call_start + Len(BEGIN_CALL), call_end))
                 lines == SplitLines(call_text)
             IN  [ok |-> TRUE, error |-> "",
                  thought |-> thought,
                  name |-> Strip(lines[1]),
                  arguments |-> ParseArgs(lines, 2, <<>>)]

\* parse that wants the end marker after the whole begin marker
Parse_DisjointMarkers(text) ==
    LET call_start == RFind(text, BEGIN_CALL)
        call_end == RFind(text, END_CALL)
    IN  IF call_start = -1 \/ call_end = -1 \/ call_end < call_start + Len(BEGIN_CALL)
        THEN [ok |-> FALSE, error |-> "No valid function call found",
              thought |-> "", name |-> "", arguments |-> <<>>]
        ELSE LET thought == Strip(Slice(text, 0, call_start))
                 call_text == Strip(Slice(text, call_start + Len(BEGIN_CALL), call_end))
                 lines == SplitLines(call_text)
             IN  [ok |-> TRUE, error |-> "",
                  thought |-> thought,
                  name |-> Strip(lines[1]),
                  arguments |-> ParseArgs(lines, 2, <<>>)]

\* parse that takes the call text from the begin marker to the end of the text
Parse_BodyToEnd(text) ==
    LET call_start == RFind(text, BEGIN_CALL)
        call_end == RFind(text, END_CALL)
    IN  IF call_start = -1 \/ call_end = -1 \/ call_end < call_start
        THEN [ok |-> FALSE, error |-> "No valid function call found",
              thought |-> "", name |-> "", arguments |-> <<>>]
        ELSE LET thought == Strip(Slice(text, 0, call_start))
                 call_text == Strip(Slice(text, call_start + Len(BEGIN_CALL), Len(text)))
                 lines == SplitLines(call_text)
             IN  [ok |-> TRUE, error |-> "",
                  thought |-> thought,
                  name |-> Strip(lines[1]),
                  arguments |-> ParseArgs(lines, 2, <<>>)]

\* parse(text): ok = FALSE stands for the ValueError it raises
Parse(text) ==
    LET call_start == RFind(text, BEGIN_CALL)
        call_end == RFind(text, END_CALL)
    IN  IF call_start = -1 \/ call_end = -1 \/ call_end < call_start
        THEN [ok |-> FALSE, error |-> "No valid function call found",
              thought |-> "", name |-> "", arguments |-> <<>>]
        ELSE LET thought == Strip(Slice(text, 0, call_start))
                 call_text == Strip(Slice(text, call_start + Len(BEGIN_CALL), call_end))
                 lines == SplitLines(call_text)
             IN  [ok |-> TRUE, error |-> "",
                  thought |-> thought,
                  name |-> Strip(lines[1]),
                  arguments |-> ParseArgs(lines, 2, <<>>)]


\* the call block the response format asks for, after the reasoning text
RECURSIVE SerializeArgs(_)
SerializeArgs(arguments) ==
    IF Len(arguments) = 0 THEN ""
    ELSE ARG_SEP \o "\n" \o arguments[1][1] \o "\n" \o VALUE_SEP \o "\n"
         \o arguments[1][2] \o "\n" \o SerializeArgs(Tail(arguments))

Serialize(thought, name, arguments) ==
    thought \o "\n" \o BEGIN_CALL \o "\n" \o name \o "\n"
    \o SerializeArgs(arguments) \o END_CALL

\* a call block alone
Block(name, arguments) ==
    BEGIN_CALL \o "\n" \o name \o "\n" \o SerializeArgs(arguments) \o END_CALL

(***************************************************************************)
(* Texts given to parse.                                                   *)
(***************************************************************************)
CallThoughts == {"", "I will search."}
CallNames == {"grep", "run_test", "  show_file "}
\* argument lists with distinct names: none, one, two; values empty,
\* multiline, indented and padded with blank lines
CallArgs ==
    {<<>>,
     << <<"pattern", "def f">> >>,
     << <<"file_path", "a.py">>, <<"content", "x = 1\n\n  y = 2">> >>,
     << <<"content", "  \nif x:\n    return 1\n ">>, <<"to_line", "">> >>,
     << <<" test_path ", "tests/test_a.py">>, <<"verbose", "\tTrue">> >>}

\* well-formed responses: reasoning, then one call block
WellFormedCalls == CallThoughts \X CallNames \X CallArgs
WellFormedText == [c \in WellFormedCalls |-> Serialize(c[1], c[2], c[3])]

\* responses with an example block in the reasoning before the real block
ExampleBlocks ==
    {Block("find_files", <<>>), Block("find_files", << <<"name_pattern", "*.py">> >>)}
TwoBlockCalls == ExampleBlocks \X CallNames \X CallArgs
TwoBlockText ==
    [c \in TwoBlockCalls |->
        "For example:\n" \o c[1] \o "\nNow the real call.\n" \o Block(c[2], c[3])]

\* responses around the three failure conditions of parse
MarkerTexts ==
    {"", "I should look at the code first.", "I call\n" \o BEGIN_CALL \o "\ngrep\n", "grep\n" \o END_CALL,
     END_CALL \o "\n" \o BEGIN_CALL \o "\ngrep\n",
     Block("grep", <<>>) \o "\n" \o BEGIN_CALL \o "\nrun_test\n",
     BEGIN_CALL \o END_CALL,
     "----BEGIN_FUNCTION_CALL----END_FUNCTION_CALL----",
     END_CALL \o Block("grep", <<>>)}

\* texts a model may write after the end marker: blank, prose, separator
\* lines, and texts that bring a marker (whole, or completed by the dashes
\* that end the marker before them)
TrailingTexts ==
    {"\n", "\nDone.", "  \n\nI will wait for the result.\n",
     "\n" \o ARG_SEP \o "\nextra\n" \o VALUE_SEP \o "\n1",
     "\n" \o END_CALL, "END_FUNCTION_CALL----",
     "\n" \o BEGIN_CALL, "BEGIN_FUNCTION_CALL----",
     "\n" \o Block("finish", <<>>)}
TrailingCalls == WellFormedCalls \X TrailingTexts
TrailingText == [c \in TrailingCalls |-> WellFormedText[c[1]] \o c[2]]

\* argument lists that name an argument more than once: with and without
\* a value, adjacent and apart, and the same name padded differently
DuplicateArgs ==
    {<< <<"pattern", "def f">>, <<"pattern", "def g">> >>,
     << <<"file_path", "a.py">>, <<"content", "x = 1">>, <<"file_path", "b.py">> >>,
     << <<"a", "1">>, <<"b", "2">>, <<"a", "3">>, <<"b", "">>, <<"c", "5">>, <<"a", "6\n7">> >>,
     << <<"from_line", "1">>, <<"to_line", "2">>, <<" from_line ", "">>, <<"to_line", " 4 ">> >>}
DuplicateCalls == CallThoughts \X CallNames \X DuplicateArgs
DuplicateText == [c \in DuplicateCalls |-> Serialize(c[1], c[2], c[3])]

ParserInputs ==
    {WellFormedText[c] : c \in WellFormedCalls}
    \cup {TwoBlockText[c] : c \in TwoBlockCalls}
    \cup MarkerTexts
    \cup {TrailingText[c] : c \in TrailingCalls}
    \cup {DuplicateText[c] : c \in DuplicateCalls}

\* ResponseParser.response_format
response_format ==
    "\nyour_thoughts_here\n...\n" \o BEGIN_CALL \o "\nfunction_name\n" \o ARG_SEP
    \o "\narg1_name\n" \o VALUE_SEP \o "\narg1_value (can be multiline)\n" \o ARG_SEP
    \o "\narg2_name\n" \o VALUE_SEP \o "\narg2_value (can be multiline)\n...\n" \o END_CALL
    \o "\n\nDO NOT CHANGE ANY TEST! AS THEY WILL BE USED FOR EVALUATION.\n"

(***************************************************************************)
(* The environment: what the LLM and the tools can answer.                 *)
(***************************************************************************)
\* results a model passes to finish
FinishResults == {"Fixed the issue", "Max steps reached"}

RespNoCall == "I should look at the code first."
RespFinish(r) == Serialize("Done.", "finish", << <<"result", r>> >>)
RespEdit(path) ==
    Serialize("Edit.", "replace_in_file",
              << <<"file_path", path>>, <<"from_line", "1">>,
                 <<"to_line", "1">>, <<"content", "x = 1">> >>)
RespTest == Serialize("Test.", "run_test", << <<"test_path", "tests/test_a.py">> >>)
RespBash(cmd) == Serialize("Shell.", "run_bash_cmd", << <<"command", cmd>> >>)

\* texts LLM.generate returns in the model
Responses ==
    {RespNoCall, RespTest, RespBash("pytest -q tests")}
    \cup {RespFinish(r) : r \in FinishResults}
    \cup {RespEdit(p) : p \in {"a.py", "errors.py"}}

\* exceptions LLM.generate raises in the model (llm.py:124)
LLMErrors ==
    {[type |-> "RuntimeError",
      msg |-> "OpenAI API call failed: APIError: connection reset"]}

\* calls whose arguments do not bind to the parameters of the function called
RespFinishNoArgs == Serialize("Done.", "finish", <<>>)
RespGrepNoArgs == Serialize("Search.", "grep", <<>>)

\* texts LLM.generate returns when the failures of a step are followed
ErrorResponses ==
    {RespNoCall, RespTest, RespEdit("a.py"), RespFinish("Fixed the issue"),
     RespFinishNoArgs, RespGrepNoArgs}

\* a search call and a shell command that runs no test
RespGrep == Serialize("Search.", "grep", << <<"pattern", "def ">> >>)
RespCat == RespBash("cat report.txt")

\* texts LLM.generate returns when steps without guard effect are followed
FrameResponses ==
    {RespNoCall, RespTest, RespEdit("a.py"), RespFinish("Fixed the issue"),
     RespCat, RespBash("pytest -q tests"), RespGrep}

AllResponses == Responses \cup ErrorResponses \cup FrameResponses

\* parse applied to each response, computed once
ParseTable == [r \in AllResponses |-> Parse(r)]

Return(text) == [kind |-> "return", type |-> "", text |-> text]
Raise(type, text) == [kind |-> "raise", type |-> type, text |-> text]

\* What a registered tool can do when called with the parsed arguments: the
\* text it returns or the exception it raises.  replace_in_file reports the
\* edited path (envs.py:236); run_bash_cmd is DumbEnvironment's, which raises
\* ValueError with the output when the command exits non-zero (envs.py:803);
\* the other tool is grep, whose call raises TypeError without its pattern.
ToolOutcomes(name, arguments) ==
    CASE name = "replace_in_file" ->
           {Return("Successfully replaced lines " \o DictGet(arguments, "from_line", "")
                   \o " to " \o DictGet(arguments, "to_line", "") \o " (1 lines) in "
                   \o DictGet(arguments, "file_path", ""))}
      [] name = "run_test" ->
           {Return("2 passed in 0.01s"), Return("1 failed, 1 passed in 0.02s")}
      [] name = "run_bash_cmd" ->
           IF Contains(DictGet(arguments, "command", ""), "cat ")
           THEN {Return("--STDOUT--\n1 failed, 1 passed in 0.02s\n--STDERR--\n")}
           ELSE {Return("--STDOUT--\n2 passed in 0.01s\n--STDERR--\n"),
                 Raise("ValueError", "--STDOUT--\n1 failed, 1 passed in 0.02s\n--STDERR--\n")}
      [] OTHER ->
           IF "pattern" \in DictKeys(arguments)
           THEN {Return("No matches found")}
           ELSE {Raise("TypeError",
                       "SWEEnvironment.grep() missing 1 required positional argument: 'pattern'")}


(***************************************************************************)
(* Tool registry and system prompt (ReactAgent.__init__, add_functions).   *)
(***************************************************************************)
\* first line of the base prompt; the rest of the text is fixed and unread
initial_system_content ==
    "You are an autonomous software engineer fixing bugs in a repository."

\* inspect.signature(tool) and the first line of inspect.getdoc(tool)
ToolSignature(name) ==
    CASE name = "finish" -> "(result: str)"
      [] name = "replace_in_file" ->
           "(file_path: str, from_line: int, to_line: int, content: str) -> str"
      [] name = "run_test" ->
           "(test_path: str = None, test_name: str = None, verbose: bool = False) -> str"
      [] name = "run_bash_cmd" -> "(command: str) -> str"
      [] OTHER -> "(pattern: str, file_pattern: str = '*', case_sensitive: bool = True) -> str"

ToolDoc(name) ==
    CASE name = "finish" ->
           "The agent must call this function with the final result when it has solved the given task."
      [] name = "replace_in_file" -> "Replace lines in a file from from_line to to_line."
      [] name = "run_test" -> "Run tests using pytest."
      [] name = "run_bash_cmd" -> "Run the command in a bash shell and return the output."
      [] OTHER -> "Search for a pattern in files using grep."

ToolDescription(name) ==
    "Function: " \o name \o ToolSignature(name) \o "\n" \o ToolDoc(name) \o "\n"

tool_categories ==
    << <<"Repository Information", {"get_repo_info", "git_status"}>>,
       <<"File Operations", {"show_file", "replace_in_file", "grep", "find_files",
                             "show_code_structure", "show_file_snippet"}>>,
       <<"Testing & Analysis", {"run_test", "run_relevant_tests", "analyze_test_failure",
                                "find_test_file", "check_syntax"}>>,
       <<"General", {"run_bash_cmd", "finish"}>> >>

Categorized == UNION {tool_categories[i][2] : i \in 1..Len(tool_categories)}

\* descriptions of the tools of fmap (in registry order) whose name is in names
RECURSIVE Descriptions(_, _)
Descriptions(fmap, names) ==
    IF Len(fmap) = 0 THEN <<>>
    ELSE (IF fmap[1] \in names THEN <<ToolDescription(fmap[1])>> ELSE <<>>)
         \o Descriptions(Tail(fmap), names)

RECURSIVE CategorySections(_, _)
CategorySections(fmap, i) ==
    IF i > Len(tool_categories) THEN <<>>
    ELSE LET descriptions == Descriptions(fmap, tool_categories[i][2])
         IN  (IF Len(descriptions) > 0
              THEN <<"### " \o tool_categories[i][1] \o "\n" \o JoinLines(descriptions)>>
              ELSE <<>>)
             \o CategorySections(fmap, i + 1)

ToolText(fmap) ==
    LET uncategorized == Descriptions(fmap, {fmap[i] : i \in 1..Len(fmap)} \ Categorized)
    IN  JoinLines(CategorySections(fmap, 1)
                  \o (IF Len(uncategorized) > 0
                      THEN <<"### Other Tools\n" \o JoinLines(uncategorized)>>
                      ELSE <<>>))

\* function_map.update({tool.__name__: tool ...}): a key keeps its position
RECURSIVE MapUpdate(_, _)
MapUpdate(fmap, tools) ==
    IF Len(tools) = 0 THEN fmap
    ELSE MapUpdate(IF \E i \in 1..Len(fmap) : fmap[i] = tools[1]
                   THEN fmap ELSE Append(fmap, tools[1]),
                   Tail(tools))

\* the system content add_functions stores
SystemContentWithTools(current_content, fmap) ==
    current_content \o "\n\n## Available Tools\n\n" \o ToolText(fmap)
    \o "\n\n## Response Format\n\n" \o response_format
    \o "\n\nDO NOT CHANGE ANY TEST! AS THEY WILL BE USED FOR EVALUATION."

\* tool lists the caller registers after construction
ToolLists == {<<"replace_in_file", "run_test", "run_bash_cmd", "grep">>}

\* ASCII order of the characters tool names are made of
CharOrder == "_abcdefghijklmnopqrstuvwxyz"

Ord(c) ==
    LET P == {i \in 1..Len(CharOrder) : SubSeq(CharOrder, i, i) = c}
    IN  IF P = {} THEN 0 ELSE CHOOSE i \in P : TRUE

\* a < b on Python strings
RECURSIVE StrLess(_, _)
StrLess(a, b) ==
    IF Len(b) = 0 THEN FALSE
    ELSE IF Len(a) = 0 THEN TRUE
    ELSE IF Ord(SubSeq(a, 1, 1)) # Ord(SubSeq(b, 1, 1))
    THEN Ord(SubSeq(a, 1, 1)) < Ord(SubSeq(b, 1, 1))
    ELSE StrLess(SubSeq(a, 2, Len(a)), SubSeq(b, 2, Len(b)))

\* sorted(names)
RECURSIVE Sorted(_)
Sorted(names) ==
    IF names = {} THEN <<>>
    ELSE LET m == CHOOSE x \in names : \A y \in names \ {x} : StrLess(x, y)
         IN  <<m>> \o Sorted(names \ {m})

\* ", ".join(parts)
RECURSIVE JoinComma(_)
JoinComma(parts) ==
    IF Len(parts) = 0 THEN ""
    ELSE IF Len(parts) = 1 THEN parts[1]
    ELSE parts[1] \o ", " \o JoinComma(Tail(parts))


(***************************************************************************)
(* Guard helpers and message texts of ReactAgent.run.                      *)
(***************************************************************************)
\* _is_test_command
IsTestCommand(command) ==
    IF Len(command) = 0 THEN FALSE
    ELSE LET command_lower == Lower(command)
         IN  \/ Contains(command_lower, "pytest")
             \/ Contains(command_lower, "python -m pytest")
             \/ Contains(command_lower, "python -m unittest")
             \/ Contains(command_lower, "unittest")
             \/ Contains(command_lower, "make test")
             \/ /\ Contains(command_lower, "test")
                /\ \E keyword \in {"test_", "tests/", "/test"} :
                       Contains(command_lower, keyword)

\* _has_test_failure (tool results are strings in the model)
HasTestFailure(output) ==
    LET upper == Upper(output)
    IN  \E token \in {"FAILED", "ERROR", "TRACEBACK", "EXCEPTION", "FAILURES"} :
            Contains(upper, token)

\* the success test applied to the text replace_in_file returned
EditSucceeded(res) ==
    LET lowered == Lower(res)
    IN  /\ Contains(lowered, "successfully replaced")
        /\ ~Contains(lowered, "error")
        /\ ~Contains(lowered, "timeout")

\* every call the model's LLM can ask for, and every answer a tool can give
Calls == {ParseTable[r] : r \in {x \in AllResponses : ParseTable[x].ok}}
Outcomes == UNION {ToolOutcomes(c.name, c.arguments) : c \in Calls}
ReturnTexts == {o.text : o \in {x \in Outcomes : x.kind = "return"}}
RaiseTexts == {o.text : o \in {x \in Outcomes : x.kind = "raise"}}
Commands == {DictGet(c.arguments, "command", "") : c \in Calls}

\* the predicates above on the texts of the model, computed once
EditSucceededOf == [t \in ReturnTexts |-> EditSucceeded(t)]
HasTestFailureOf == [t \in ReturnTexts |-> HasTestFailure(t)]
IsTestCommandOf == [c \in Commands |-> IsTestCommand(c)]
ReportsSuccessOf == [t \in ReturnTexts |-> Contains(t, "Successfully replaced")]

RejectNoFailingTest ==
    "You have not reproduced a failing test yet. Run the recommended failing test with run_relevant_tests() or run_test() before finishing."
RejectNoEdit ==
    "You have not modified any files yet. Use replace_in_file() to change the code before calling finish()."
RejectNoTests ==
    "You have not run tests since your last code change. Re-run the failing test with run_relevant_tests() or run_test() before calling finish()."
RejectFailing ==
    "Your most recent test run still shows failures. Fix the issue and re-run tests before calling finish()."

RejectionTexts == {RejectNoFailingTest, RejectNoEdit, RejectNoTests, RejectFailing}

\* FinishRejection without the last check (last_test_had_failure)
FinishRejection_NoFailureCheck(saw, made, ran, failing) ==
    IF ~saw THEN RejectNoFailingTest
    ELSE IF ~made THEN RejectNoEdit
    ELSE IF ~ran THEN RejectNoTests
    ELSE ""

\* FinishRejection looking at the test flags only (no edit checks)
FinishRejection_NoEditChecks(saw, made, ran, failing) ==
    IF ~saw THEN RejectNoFailingTest
    ELSE IF failing THEN RejectFailing
    ELSE ""

\* FinishRejection without the first check (saw_failing_test)
FinishRejection_NoReproCheck(saw, made, ran, failing) ==
    IF ~made THEN RejectNoEdit
    ELSE IF ~ran THEN RejectNoTests
    ELSE IF failing THEN RejectFailing
    ELSE ""

\* FinishRejection going through the checks in the opposite order
FinishRejection_LastCheckFirst(saw, made, ran, failing) ==
    IF failing THEN RejectFailing
    ELSE IF ~ran THEN RejectNoTests
    ELSE IF ~made THEN RejectNoEdit
    ELSE IF ~saw THEN RejectNoFailingTest
    ELSE ""

\* The guards a parsed finish call goes through, in order: the message of
\* the first failing one, "" when the call is accepted.
FinishRejection(saw, made, ran, failing) ==
    IF ~saw THEN RejectNoFailingTest
    ELSE IF ~made THEN RejectNoEdit
    ELSE IF ~ran THEN RejectNoTests
    ELSE IF failing THEN RejectFailing
    ELSE ""

\* ReactAgent.finish
Finish(res) == res

\* finish(**arguments) binds: exactly the parameter `result` is given
FinishBinds(arguments) == DictKeys(arguments) = {"result"}

LLMErrorMessage(e) ==
    "Error calling LLM: " \o e.type \o ": " \o e.msg
    \o "\nThe API call failed. Please try again with your next action."

ParseErrorMessage(err) ==
    "Error parsing function call: " \o err
    \o "\nMake sure your response includes exactly one function call with the format:\n"
    \o BEGIN_CALL \o "\nfunction_name\n" \o ARG_SEP \o "\narg_name\n" \o VALUE_SEP
    \o "\narg_value\n" \o END_CALL
    \o "\nYour response should not include function call markers in file content."

UnknownFunctionError(name, fmap) ==
    "Unknown function: " \o name \o ". Available functions: "
    \o JoinComma(Sorted({fmap[i] : i \in 1..Len(fmap)}))

\* except ValueError
ValueErrorMessage(name, msg) ==
    LET error_msg == "Error executing " \o name \o ": " \o msg
        low == Lower(msg)
    IN  IF Contains(low, "function call marker")
        THEN error_msg \o "\nTip: When using replace_in_file(), only include the actual code content. Do not include function call markers (----BEGIN_FUNCTION_CALL----, etc.) in the content parameter."
        ELSE IF Contains(low, "not found") \/ Contains(low, "does not exist")
        THEN error_msg \o "\nTip: Use find_files() or grep() to locate the correct file path."
        ELSE error_msg

\* the registries the model reaches: after construction and after each
\* add_functions call
RECURSIVE FunctionMapsAfter(_)
FunctionMapsAfter(n) ==
    IF n = 0 THEN {<<"finish">>}
    ELSE LET prev == FunctionMapsAfter(n - 1)
         IN  prev \cup {MapUpdate(f, tools) : f \in prev, tools \in ToolLists}

\* the two ValueError messages on the calls of the model, computed once
ToolErrorMessageOf ==
    [name \in {c.name : c \in Calls}, text \in RaiseTexts |-> ValueErrorMessage(name, text)]
UnknownToolMessageOf ==
    [name \in {c.name : c \in Calls}, fmap \in FunctionMapsAfter(MaxAdds) |->
        ValueErrorMessage(name, UnknownFunctionError(name, fmap))]

\* repr of a str without quotes or backslashes: newlines are escaped
RECURSIVE EscapeNL(_)
EscapeNL(s) ==
    IF Len(s) = 0 THEN ""
    ELSE (IF SubSeq(s, 1, 1) = "\n" THEN "\\n" ELSE SubSeq(s, 1, 1))
         \o EscapeNL(SubSeq(s, 2, Len(s)))

PyRepr(s) == "'" \o EscapeNL(s) \o "'"

\* repr of the arguments dict
DictRepr(d) ==
    "{" \o JoinComma([i \in 1..Len(d) |-> PyRepr(d[i][1]) \o ": " \o PyRepr(d[i][2])]) \o "}"

\* except Exception
ExceptionMessage(name, type, msg, arguments) ==
    "Error executing " \o name \o ": " \o type \o ": " \o msg
    \o "\nArguments used: " \o DictRepr(arguments)

(***************************************************************************)
(* State.                                                                  *)
(***************************************************************************)
VARIABLES
    id_to_message,          \* the message list: records role, content, unique_id
    function_map,           \* registered tool names, in registration order
    made_edit,
    ran_tests_after_edit,
    saw_failing_test,
    last_test_had_failure,
    pc,                     \* "idle": no run call is active; "running": inside the loop of run
    step,                   \* loop iterations of the active run begun so far
    max_steps,              \* the max_steps argument of the active run
    outcome,                \* how the last run ended: "none", "finish", "max_steps", "raised"
    result,                 \* the value the last run returned
    llm_calls,              \* llm.generate calls made by the active run
    total_calls,            \* loop iterations over all runs (bounded by MaxCalls)
    adds,                   \* add_functions calls after construction (bounded by MaxAdds)
    runs,                   \* run calls made so far (bounded by MaxRuns)
    run_base,               \* length of the message list when the active run began
    start_guard,            \* the four guard flags when the active run began
    untested_edit,          \* history: an edit call reported success and no test call returned since
    returned,               \* the values add_message returned to its caller's own calls, in order
    raised,                 \* the exception the caller's last set_message_content call raised, "" if none
    twin,                   \* a second agent built the same way: its id_to_message and function_map
    input,                  \* the text given to ResponseParser.parse
    parses,                 \* what parse returned: for text, then for the re-serialized call
    llm,                    \* an OpenAIModel: its attributes stop_token, model_name, log_dir, call_count
    create_calls,           \* the calls of client.responses.create: keyword arguments and answer
    generated,              \* what each OpenAIModel.generate call returned or raised
    log_file,               \* the entries of log_dir/llm_calls.jsonl
    executed,               \* the commands given to env.execute, each with its answer
    patches,                \* what each generate_patch call returned
    file_lines,             \* the lines of the file replace_in_file is called on
    replaced                \* the replace_in_file calls: arguments, lines before, answer

vars == <<id_to_message, function_map, made_edit, ran_tests_after_edit, saw_failing_test,
          last_test_had_failure, pc, step, max_steps, outcome, result, llm_calls,
          total_calls, adds, runs, run_base, start_guard, untested_edit,
          returned, raised, twin, input, parses,
          llm, create_calls, generated, log_file, executed, patches, file_lines, replaced>>

guard == <<made_edit, ran_tests_after_edit, saw_failing_test, last_test_had_failure>>
\* what the loop of run never writes
\* the language model client and the environment, which the agent's own
\* bookkeeping never writes
collab == <<llm, create_calls, generated, log_file, executed, patches, file_lines, replaced>>
other == <<returned, raised, twin, input, parses, collab>>
loopvars == <<max_steps, run_base, start_guard, adds, runs, function_map, other>>

\* Python's None
None == "None"

system_message_id == 0
user_message_id == 1

\* add_message putting the new message in front of the others
AddMessage_Prepend(msgs, role, content) ==
    <<[role |-> role, content |-> content, unique_id |-> Len(msgs)]>> \o msgs

\* add_message: the list with the message appended (its id is the old length)
AddMessage(msgs, role, content) ==
    Append(msgs, [role |-> role, content |-> content, unique_id |-> Len(msgs)])

\* self.id_to_message[message_id] finds a message: Python list indexing
\* counts a negative index from the end of the list
IndexInRange(msgs, message_id) == -Len(msgs) <= message_id /\ message_id < Len(msgs)

\* set_message_content for an index in range (ids are 0-based)
SetMessageContent(msgs, message_id, content) ==
    LET i == IF message_id < 0 THEN message_id + Len(msgs) ELSE message_id
    IN  [msgs EXCEPT ![i + 1].content = content]

\* message_id_to_context
MessageIdToContext(msgs, fmap, message_id) ==
    LET message == msgs[message_id + 1]
        header == "----------------------------\n|MESSAGE(role=\"" \o message.role
                  \o "\", id=" \o ToString(message.unique_id) \o ")|\n"
    IN  IF message.role = "system"
        THEN header \o message.content \o "\n--- AVAILABLE TOOLS ---\n"
             \o JoinLines([i \in 1..Len(fmap) |-> ToolDescription(fmap[i])])
             \o "\n\n--- RESPONSE FORMAT ---\n" \o response_format \o "\n"
        ELSE header \o message.content \o "\n"

\* get_messages_for_llm: the roles and contents sent to the LLM
GetMessagesForLLM(msgs, fmap) ==
    [idx \in 1..Len(msgs) |->
        IF msgs[idx].role = "system"
        THEN LET content_lines == SplitLines(MessageIdToContext(msgs, fmap, idx - 1))
             IN  [role |-> "system",
                  content |-> IF Len(content_lines) > 2
                              THEN JoinLines(SubSeq(content_lines, 3, Len(content_lines)))
                              ELSE msgs[idx].content]
        ELSE [role |-> msgs[idx].role, content |-> msgs[idx].content]]

Tasks == {"Fix the failing test"}

\* the message list ReactAgent.__init__ leaves: the two anchors, and the
\* system content as add_functions([self.finish]) rewrote it
InitialMessages ==
    SetMessageContent(
        AddMessage(AddMessage(<<>>, "system", initial_system_content), "user", ""),
        system_message_id,
        SystemContentWithTools(initial_system_content, <<"finish">>))

\* the state after ReactAgent.__init__, which registers finish
Constructed ==
    /\ function_map = <<"finish">>
    /\ id_to_message = InitialMessages
    /\ made_edit = FALSE
    /\ ran_tests_after_edit = FALSE
    /\ saw_failing_test = FALSE
    /\ last_test_had_failure = FALSE
    /\ pc = "idle"
    /\ step = 0
    /\ max_steps = 0
    /\ outcome = "none"
    /\ result = ""
    /\ llm_calls = 0
    /\ total_calls = 0
    /\ adds = 0
    /\ runs = 0
    /\ run_base = 2
    /\ start_guard = <<FALSE, FALSE, FALSE, FALSE>>
    /\ untested_edit = FALSE
    /\ returned = <<>>
    /\ raised = ""
    /\ twin = [id_to_message |-> InitialMessages, function_map |-> <<"finish">>,
               adds |-> 0]
    /\ create_calls = <<>>
    /\ generated = <<>>
    /\ log_file = <<>>
    /\ executed = <<>>
    /\ patches = <<>>
    /\ replaced = <<>>

\* the model built in agent.py:424
AgentLLM ==
    [stop_token |-> END_CALL, model_name |-> "gpt-4o-mini", log_dir |-> None, call_count |-> 0]

Init ==
    /\ Constructed
    /\ input = ""
    /\ parses = <<>>
    /\ llm = AgentLLM
    /\ file_lines = <<>>

(***************************************************************************)
(* Operations.                                                             *)
(***************************************************************************)
\* add_functions(tools), called between runs
AddFunctions(tools) ==
    /\ pc = "idle"
    /\ adds < MaxAdds
    /\ adds' = adds + 1
    /\ function_map' = MapUpdate(function_map, tools)
    /\ id_to_message' =
         SetMessageContent(id_to_message, system_message_id,
             SystemContentWithTools(id_to_message[system_message_id + 1].content,
                                    function_map'))
    /\ UNCHANGED <<guard, pc, step, max_steps, outcome, result, llm_calls, total_calls,
                   runs, run_base, start_guard, untested_edit, other>>

\* run(task, k) up to the first loop iteration
RunStart(task, k) ==
    /\ pc = "idle"
    /\ runs < MaxRuns
    /\ runs' = runs + 1
    /\ id_to_message' = SetMessageContent(id_to_message, user_message_id, task)
    /\ pc' = "running"
    /\ step' = 0
    /\ max_steps' = k
    /\ outcome' = "none"
    /\ result' = ""
    /\ llm_calls' = 0
    /\ run_base' = Len(id_to_message)
    /\ start_guard' = guard
    /\ UNCHANGED <<guard, function_map, total_calls, adds, untested_edit, other>>

\* add_message(role, content) called by the agent's owner between runs
MaxNotes == 2

AddMessageCall(role, content) ==
    /\ pc = "idle"
    /\ Len(returned) < MaxNotes
    /\ id_to_message' = AddMessage(id_to_message, role, content)
    /\ returned' = Append(returned, Len(id_to_message') - 1)
    /\ UNCHANGED <<guard, function_map, pc, step, max_steps, outcome, result, llm_calls,
                   total_calls, adds, runs, run_base, start_guard, untested_edit, collab,
                   raised, twin, input, parses>>

\* set_message_content(message_id, content) called by the agent's owner
\* between runs: IndexError when the list has no such index
SetMessageContentCall(message_id, content) ==
    /\ pc = "idle"
    /\ IF IndexInRange(id_to_message, message_id)
       THEN /\ id_to_message' = SetMessageContent(id_to_message, message_id, content)
            /\ raised' = ""
       ELSE /\ raised' = "IndexError"
            /\ UNCHANGED id_to_message
    /\ UNCHANGED <<guard, function_map, pc, step, max_steps, outcome, result, llm_calls,
                   total_calls, adds, runs, run_base, start_guard, untested_edit, collab,
                   returned, twin, input, parses>>

\* add_functions(tools) called on the second agent
MaxTwinAdds == 2

TwinAddFunctions(tools) ==
    LET fmap == MapUpdate(twin.function_map, tools)
    IN  /\ twin.adds < MaxTwinAdds
        /\ twin' = [function_map |-> fmap,
                    adds |-> twin.adds + 1,
                    id_to_message |->
                        SetMessageContent(twin.id_to_message, system_message_id,
                            SystemContentWithTools(
                                twin.id_to_message[system_message_id + 1].content, fmap))]
        /\ UNCHANGED <<id_to_message, guard, function_map, pc, step, max_steps, outcome,
                       result, llm_calls, total_calls, adds, runs, run_base, start_guard,
                       untested_edit, collab, returned, raised, input, parses>>

\* parser.parse(input)
ParseCall ==
    /\ Len(parses) = 0
    /\ parses' = <<Parse(input)>>
    /\ UNCHANGED <<id_to_message, guard, function_map, pc, step, max_steps, outcome,
                   result, llm_calls, total_calls, adds, runs, run_base, start_guard,
                   untested_edit, collab, returned, raised, twin, input>>

\* the parsed call written out in the response format and parsed again
ReparseCall ==
    /\ Len(parses) = 1
    /\ parses[1].ok
    /\ parses' = Append(parses, Parse(Serialize(parses[1].thought, parses[1].name,
                                                parses[1].arguments)))
    /\ UNCHANGED <<id_to_message, guard, function_map, pc, step, max_steps, outcome,
                   result, llm_calls, total_calls, adds, runs, run_base, start_guard,
                   untested_edit, collab, returned, raised, twin, input>>

InLoop == pc = "running" /\ step < max_steps

\* Reject that does not repeat a rejection the log already ends with
Reject_Merged(msgs, rejection) ==
    IF Len(msgs) >= 2 /\ msgs[Len(msgs) - 1].content = rejection
    THEN msgs
    ELSE AddMessage(msgs, "user", rejection)

\* Reject that leaves the rejected finish without a message
Reject_Silent(msgs, rejection) == msgs

\* the add_message call of a rejected finish
Reject(msgs, rejection) == AddMessage(msgs, "user", rejection)

\* what every loop iteration does to the counters
Iterate ==
    /\ step' = step + 1
    /\ llm_calls' = llm_calls + 1
    /\ total_calls' = total_calls + 1

\* LLMFails retrying the call without using up a step
LLMFails_Retry(e) ==
    /\ InLoop
    /\ total_calls < MaxCalls
    /\ llm_calls' = llm_calls + 1
    /\ total_calls' = total_calls + 1
    /\ id_to_message' = AddMessage(id_to_message, "user", LLMErrorMessage(e))
    /\ UNCHANGED <<guard, pc, step, outcome, result, loopvars, untested_edit>>

\* LLMFails that also logs an empty assistant turn for the failed call
LLMFails_LogsAssistant(e) ==
    /\ InLoop
    /\ Iterate
    /\ id_to_message' =
         AddMessage(AddMessage(id_to_message, "assistant", ""), "user", LLMErrorMessage(e))
    /\ UNCHANGED <<guard, pc, outcome, result, loopvars, untested_edit>>

\* a loop iteration in which llm.generate raises e
LLMFails(e) ==
    /\ InLoop
    /\ Iterate
    /\ id_to_message' = AddMessage(id_to_message, "user", LLMErrorMessage(e))
    /\ UNCHANGED <<guard, pc, outcome, result, loopvars, untested_edit>>

\* ParseFails that logs the corrective message only, not the response
ParseFails_DropsResponse(response) ==
    /\ InLoop
    /\ ~ParseTable[response].ok
    /\ Iterate
    /\ id_to_message' =
         AddMessage(id_to_message, "user", ParseErrorMessage(ParseTable[response].error))
    /\ UNCHANGED <<guard, pc, outcome, result, loopvars, untested_edit>>

\* a loop iteration in which the response has no call block
ParseFails(response) ==
    /\ InLoop
    /\ ~ParseTable[response].ok
    /\ Iterate
    /\ id_to_message' =
         AddMessage(AddMessage(id_to_message, "assistant", response),
                    "user", ParseErrorMessage(ParseTable[response].error))
    /\ UNCHANGED <<guard, pc, outcome, result, loopvars, untested_edit>>

\* a loop iteration in which the parsed call is finish
FinishCall(response) ==
    LET function_call == ParseTable[response]
        rejection == FinishRejection(saw_failing_test, made_edit,
                                     ran_tests_after_edit, last_test_had_failure)
        logged == AddMessage(id_to_message, "assistant", response)
    IN  /\ InLoop
        /\ function_call.ok
        /\ function_call.name = "finish"
        /\ Iterate
        /\ IF rejection # ""
           THEN /\ id_to_message' = Reject(logged, rejection)
                /\ UNCHANGED <<pc, outcome, result>>
           ELSE /\ id_to_message' = logged
                /\ pc' = "idle"
                /\ IF FinishBinds(function_call.arguments)
                   THEN /\ outcome' = "finish"
                        /\ result' = Finish(DictGet(function_call.arguments, "result", ""))
                   ELSE /\ outcome' = "raised"
                        /\ result' = "TypeError"
        /\ UNCHANGED <<guard, loopvars, untested_edit>>

\* GuardAfter in which a test run that shows failures takes the edit back
GuardAfter_EditUndoneByFailure(name, arguments, res) ==
    IF name = "replace_in_file"
    THEN IF EditSucceededOf[res]
         THEN <<TRUE, FALSE, saw_failing_test, last_test_had_failure>>
         ELSE guard
    ELSE IF \/ name \in {"run_test", "run_relevant_tests"}
            \/ name = "run_bash_cmd" /\ IsTestCommandOf[DictGet(arguments, "command", "")]
    THEN LET has_failure == HasTestFailureOf[res]
         IN  <<made_edit /\ ~has_failure,
               IF made_edit THEN TRUE ELSE ran_tests_after_edit,
               IF has_failure THEN TRUE ELSE saw_failing_test,
               has_failure>>
    ELSE guard

\* GuardAfter in which a passing test run does not clear an earlier failure
GuardAfter_StickyFailure(name, arguments, res) ==
    IF name = "replace_in_file"
    THEN IF EditSucceededOf[res]
         THEN <<TRUE, FALSE, saw_failing_test, last_test_had_failure>>
         ELSE guard
    ELSE IF \/ name \in {"run_test", "run_relevant_tests"}
            \/ name = "run_bash_cmd" /\ IsTestCommandOf[DictGet(arguments, "command", "")]
    THEN LET has_failure == HasTestFailureOf[res]
         IN  <<made_edit,
               IF made_edit THEN TRUE ELSE ran_tests_after_edit,
               IF has_failure THEN TRUE ELSE saw_failing_test,
               last_test_had_failure \/ has_failure>>
    ELSE guard

\* GuardAfter that takes every run_bash_cmd call for a test run
GuardAfter_AnyShellIsTest(name, arguments, res) ==
    IF name = "replace_in_file"
    THEN IF EditSucceededOf[res]
         THEN <<TRUE, FALSE, saw_failing_test, last_test_had_failure>>
         ELSE guard
    ELSE IF name \in {"run_test", "run_relevant_tests", "run_bash_cmd"}
    THEN LET has_failure == HasTestFailureOf[res]
         IN  <<made_edit,
               IF made_edit THEN TRUE ELSE ran_tests_after_edit,
               IF has_failure THEN TRUE ELSE saw_failing_test,
               has_failure>>
    ELSE guard

\* GuardAfter in which saw_failing_test follows the latest test run
GuardAfter_SawFollowsLast(name, arguments, res) ==
    IF name = "replace_in_file"
    THEN IF EditSucceededOf[res]
         THEN <<TRUE, FALSE, saw_failing_test, last_test_had_failure>>
         ELSE guard
    ELSE IF \/ name \in {"run_test", "run_relevant_tests"}
            \/ name = "run_bash_cmd" /\ IsTestCommandOf[DictGet(arguments, "command", "")]
    THEN LET has_failure == HasTestFailureOf[res]
         IN  <<made_edit,
               IF made_edit THEN TRUE ELSE ran_tests_after_edit,
               has_failure,
               has_failure>>
    ELSE guard

\* the guard flags after tool `name` returned `res`
GuardAfter(name, arguments, res) ==
    IF name = "replace_in_file"
    THEN IF EditSucceededOf[res]
         THEN <<TRUE, FALSE, saw_failing_test, last_test_had_failure>>
         ELSE guard
    ELSE IF name \in {"run_test", "run_relevant_tests"}
    THEN LET has_failure == HasTestFailureOf[res]
         IN  <<made_edit,
               IF made_edit THEN TRUE ELSE ran_tests_after_edit,
               IF has_failure THEN TRUE ELSE saw_failing_test,
               has_failure>>
    ELSE IF name = "run_bash_cmd" /\ IsTestCommandOf[DictGet(arguments, "command", "")]
    THEN LET has_failure == HasTestFailureOf[res]
         IN  <<made_edit,
               IF made_edit THEN TRUE ELSE ran_tests_after_edit,
               IF has_failure THEN TRUE ELSE saw_failing_test,
               has_failure>>
    ELSE guard

\* a recognized test-execution call
IsTestCall(name, arguments) ==
    \/ name \in {"run_test", "run_relevant_tests"}
    \/ name = "run_bash_cmd" /\ IsTestCommandOf[DictGet(arguments, "command", "")]

\* a loop iteration in which the parsed call names a tool that is not registered
UnknownTool(response) ==
    LET function_call == ParseTable[response]
    IN  /\ InLoop
        /\ function_call.ok
        /\ function_call.name # "finish"
        /\ \A i \in 1..Len(function_map) : function_map[i] # function_call.name
        /\ Iterate
        /\ id_to_message' =
             AddMessage(AddMessage(id_to_message, "assistant", response), "user",
                        UnknownToolMessageOf[function_call.name, function_map])
        /\ UNCHANGED <<guard, pc, outcome, result, loopvars, untested_edit>>

\* a loop iteration in which a registered tool is called and answers `out`
ToolCall(response, out) ==
    LET function_call == ParseTable[response]
        name == function_call.name
        arguments == function_call.arguments
        logged == AddMessage(id_to_message, "assistant", response)
    IN  /\ InLoop
        /\ function_call.ok
        /\ name # "finish"
        /\ \E i \in 1..Len(function_map) : function_map[i] = name
        /\ out \in ToolOutcomes(name, arguments)
        /\ Iterate
        /\ IF out.kind = "return"
           THEN /\ LET after == GuardAfter(name, arguments, out.text)
                   IN  /\ made_edit' = after[1]
                       /\ ran_tests_after_edit' = after[2]
                       /\ saw_failing_test' = after[3]
                       /\ last_test_had_failure' = after[4]
                /\ id_to_message' = AddMessage(logged, "user", "Observation: " \o out.text)
                /\ untested_edit' =
                     IF name = "replace_in_file" /\ ReportsSuccessOf[out.text]
                     THEN TRUE
                     ELSE IF IsTestCall(name, arguments) THEN FALSE
                     ELSE untested_edit
           ELSE /\ id_to_message' =
                     AddMessage(logged, "user",
                         IF out.type = "ValueError"
                         THEN ToolErrorMessageOf[name, out.text]
                         ELSE ExceptionMessage(name, out.type, out.text, arguments))
                /\ UNCHANGED <<guard, untested_edit>>
        /\ UNCHANGED <<pc, outcome, result, loopvars>>

\* MaxStepsResult downgraded to a failure label when no edit was made
MaxStepsResult_Downgraded ==
    IF made_edit THEN Finish("Max steps reached")
    ELSE Finish("Max steps reached without changes")

\* the value run returns when the loop runs out of steps
MaxStepsResult == Finish("Max steps reached")

\* the loop ran out of steps: return self.finish("Max steps reached")
MaxStepsReached ==
    /\ pc = "running"
    /\ step >= max_steps
    /\ pc' = "idle"
    /\ outcome' = "max_steps"
    /\ result' = MaxStepsResult
    /\ UNCHANGED <<id_to_message, guard, step, llm_calls, total_calls, loopvars, untested_edit>>

Next ==
    \/ \E tools \in ToolLists : AddFunctions(tools)
    \/ \E task \in Tasks, k \in 0..(MaxCalls - total_calls) : RunStart(task, k)
    \/ \E e \in LLMErrors : LLMFails(e)
    \/ \E response \in Responses : ParseFails(response)
    \/ \E response \in Responses : FinishCall(response)
    \/ \E response \in Responses : UnknownTool(response)
    \/ \E response \in Responses :
           \E out \in ToolOutcomes(ParseTable[response].name, ParseTable[response].arguments) :
               ToolCall(response, out)
    \/ MaxStepsReached

Spec == Init /\ [][Next]_vars

\* run is sequential code: an active run keeps executing its loop
LoopStep ==
    \/ \E e \in LLMErrors : LLMFails(e)
    \/ \E response \in Responses :
           ParseFails(response) \/ FinishCall(response) \/ UnknownTool(response)
    \/ \E response \in Responses :
           \E out \in ToolOutcomes(ParseTable[response].name, ParseTable[response].arguments) :
               ToolCall(response, out)
    \/ MaxStepsReached

\* the same agent with a smaller budget, for checks of termination
MaxCallsFair == 3

NextFair ==
    \/ \E tools \in ToolLists : AddFunctions(tools)
    \/ \E task \in Tasks, k \in 0..(MaxCallsFair - total_calls) : RunStart(task, k)
    \/ LoopStep

FairSpec == Init /\ [][NextFair]_vars /\ WF_vars(LoopStep)

\* a model that only tests, edits and finishes, followed for longer
MaxCallsEdits == 5

EditResponses ==
    {RespTest, RespFinish("Fixed the issue"), RespEdit("a.py"), RespEdit("errors.py")}

NextEdits ==
    \/ \E tools \in ToolLists : AddFunctions(tools)
    \/ \E task \in Tasks, k \in 0..(MaxCallsEdits - total_calls) : RunStart(task, k)
    \/ \E response \in EditResponses : FinishCall(response)
    \/ \E response \in EditResponses : UnknownTool(response)
    \/ \E response \in EditResponses :
           \E out \in ToolOutcomes(ParseTable[response].name, ParseTable[response].arguments) :
               ToolCall(response, out)
    \/ MaxStepsReached

SpecEdits == Init /\ [][NextEdits]_vars

\* a model that runs tests through run_test and through the shell
MaxCallsTests == 5
TestResponses ==
    {RespTest, RespBash("pytest -q tests"), RespFinish("Fixed the issue"), RespEdit("a.py")}

NextTests ==
    \/ \E tools \in ToolLists : AddFunctions(tools)
    \/ \E task \in Tasks, k \in 0..(MaxCallsTests - total_calls) : RunStart(task, k)
    \/ \E response \in TestResponses : FinishCall(response)
    \/ \E response \in TestResponses : UnknownTool(response)
    \/ \E response \in TestResponses :
           \E out \in ToolOutcomes(ParseTable[response].name, ParseTable[response].arguments) :
               ToolCall(response, out)
    \/ MaxStepsReached

SpecTests == Init /\ [][NextTests]_vars

\* the agent with an owner who also appends to the message list
MaxCallsLog == 2
NoteRoles == {"user", "system"}
NoteContents == {"note"}
LogResponses == {RespNoCall, RespTest, RespFinish("Fixed the issue")}
\* the ids the owner tries: every index of the list and one past each end
TriedIds == (-(Len(id_to_message) + 1))..Len(id_to_message)

NextLog ==
    \/ \E role \in NoteRoles, content \in NoteContents : AddMessageCall(role, content)
    \/ \E tools \in ToolLists : AddFunctions(tools)
    \/ \E task \in Tasks, k \in 0..(MaxCallsLog - total_calls) : RunStart(task, k)
    \/ \E e \in LLMErrors : LLMFails(e)
    \/ \E response \in LogResponses : ParseFails(response)
    \/ \E response \in LogResponses : FinishCall(response)
    \/ \E response \in LogResponses : UnknownTool(response)
    \/ \E response \in LogResponses :
           \E out \in ToolOutcomes(ParseTable[response].name, ParseTable[response].arguments) :
               ToolCall(response, out)
    \/ MaxStepsReached

SpecLog == Init /\ [][NextLog]_vars

(***************************************************************************)
(* OpenAIModel (llm.py).                                                   *)
(***************************************************************************)
MaxGenerates == 2

\* stop tokens a model is constructed with (agent.py:424 gives END_CALL)
StopTokens == {END_CALL, "<|stop|>"}
LogDirs == {None, "logs"}

\* the message lists generate is called with
MessageLists ==
    {<<[role |-> "user", content |-> "test"]>>,
     <<[role |-> "system", content |-> "You are a helper."],
       [role |-> "user", content |-> "first"]>>}

\* formatted_messages: each content wrapped as one output_text part
FormatMessages(msgs) ==
    [i \in 1..Len(msgs) |->
        [role |-> msgs[i].role,
         content |-> <<[type |-> "output_text", text |-> msgs[i].content]>>]]

\* what client.responses.create can answer: a response (with output_text, or
\* with None or "" there and an output structure of items holding text parts,
\* or an output that is None: iterable = FALSE), or an exception
ApiAnswer(output_text, output) ==
    [kind |-> "response", output_text |-> output_text, output |-> output,
     iterable |-> TRUE, type |-> "", msg |-> ""]
ApiAnswers ==
    {ApiAnswer("This is a test response", <<>>),
     ApiAnswer("Response text " \o END_CALL \o " extra text", <<>>),
     ApiAnswer("  " \o RespTest \o "\n\nI will wait.\n" \o Block("finish", <<>>) \o "\n", <<>>),
     ApiAnswer("Thinking <|stop|> and <|stop|> again", <<>>),
     ApiAnswer(" \n ", <<>>),
     ApiAnswer("", <<>>),
     ApiAnswer(None, << <<"First part", "", "Second " \o END_CALL>>, <<>>, <<"Third">> >>),
     ApiAnswer(None, << <<"">> >>),
     [ApiAnswer(None, <<>>) EXCEPT !.iterable = FALSE],
     [kind |-> "error", output_text |-> None, output |-> <<>>, iterable |-> FALSE,
      type |-> "Exception", msg |-> "API Error"]}

\* "sep".join(parts)
RECURSIVE JoinWith(_, _)
JoinWith(sep, parts) ==
    IF Len(parts) = 0 THEN ""
    ELSE IF Len(parts) = 1 THEN parts[1]
    ELSE parts[1] \o sep \o JoinWith(sep, Tail(parts))

\* the non-empty text values of the content items of the output items, in order
RECURSIVE TextParts(_)
TextParts(output) ==
    IF Len(output) = 0 THEN <<>>
    ELSE SelectSeq(output[1], LAMBDA t : t # "") \o TextParts(Tail(output))

\* the text generate takes from a response: output_text when it is a
\* non-empty string, else the parts of the output structure joined by a
\* blank line; ok = FALSE when walking the structure raises
ExtractText(response) ==
    IF response.output_text # None /\ response.output_text # ""
    THEN [ok |-> TRUE, text |-> response.output_text, error |-> ""]
    ELSE IF ~response.iterable
    THEN [ok |-> FALSE, text |-> "",
          error |-> "Could not extract text from Responses API response: "
                    \o "'NoneType' object is not iterable"]
    ELSE [ok |-> TRUE, text |-> JoinWith("\n\n", TextParts(response.output)), error |-> ""]

\* text.split(stop_token)[0]
SplitFirst(s, stop_token) ==
    LET at == Find(s, stop_token) IN IF at = -1 THEN s ELSE Slice(s, 0, at)

\* stop-token handling that keeps the whole text
StopAtToken_NoSplit(s, stop_token) == Strip(s) \o "\n" \o stop_token

\* text.split(self.stop_token)[0].strip() + "\n" + self.stop_token
StopAtToken(s, stop_token) == Strip(SplitFirst(s, stop_token)) \o "\n" \o stop_token

\* the RuntimeError generate raises for the exception of type t with message m
ApiCallFailed(t, m) == "OpenAI API call failed: " \o t \o ": " \o m

\* what generate returns (ok) or raises for an answer of the API
GenerateResult(model, answer) ==
    IF answer.kind = "error"
    THEN [ok |-> FALSE, text |-> "", cause |-> answer.msg,
          error |-> ApiCallFailed(answer.type, answer.msg)]
    ELSE LET got == ExtractText(answer)
         IN  IF ~got.ok
             THEN [ok |-> FALSE, text |-> "", cause |-> got.error,
                   error |-> ApiCallFailed("RuntimeError", got.error)]
             ELSE IF got.text = ""
             THEN [ok |-> FALSE, text |-> "",
                   cause |-> "Empty response from OpenAI Responses API",
                   error |-> ApiCallFailed("RuntimeError",
                                           "Empty response from OpenAI Responses API")]
             ELSE [ok |-> TRUE, text |-> StopAtToken(got.text, model.stop_token),
                   cause |-> "", error |-> ""]

\* kwargs.get(key): the value of a keyword argument, None when not given
KwargsGet(kwargs, key) == IF key \in DOMAIN kwargs THEN kwargs[key] ELSE None

\* the id the API gives its n-th response
ResponseId(n) == "resp_" \o ToString(n)

\* the entry _log_call appends for a call
LogEntry(model, msgs, res, response_id) ==
    [call_number |-> model.call_count + 1, model |-> model.model_name, success |-> res.ok,
     messages |-> msgs, response |-> IF res.ok THEN res.text ELSE None,
     response_id |-> response_id, error |-> res.cause]

\* llm.generate(messages), the API answering `answer`
Generate(msgs, answer) ==
    /\ Len(create_calls) < MaxGenerates
    /\ LET kwargs == [model |-> llm.model_name, input |-> FormatMessages(msgs),
                      max_output_tokens |-> 4096]
           id == IF answer.kind = "response" THEN ResponseId(Len(create_calls) + 1) ELSE None
           res == GenerateResult(llm, answer)
       IN  /\ create_calls' = Append(create_calls, [kwargs |-> kwargs, answer |-> answer, id |-> id])
           /\ generated' = Append(generated, res)
           /\ IF llm.log_dir # None
              THEN /\ log_file' = Append(log_file,
                                         LogEntry(llm, FormatMessages(msgs), res,
                                                  IF res.ok THEN id ELSE None))
                   /\ llm' = [llm EXCEPT !.call_count = @ + 1]
              ELSE UNCHANGED <<log_file, llm>>
    /\ UNCHANGED <<id_to_message, guard, function_map, pc, step, max_steps, outcome, result,
                   llm_calls, total_calls, adds, runs, run_base, start_guard, untested_edit,
                   returned, raised, twin, input, parses, executed, patches, file_lines,
                   replaced>>

\* an OpenAIModel as constructed, called in turn
InitLLM ==
    /\ Constructed
    /\ input = ""
    /\ parses = <<>>
    /\ file_lines = <<>>
    /\ \E stop_token \in StopTokens, log_dir \in LogDirs :
           llm = [stop_token |-> stop_token, model_name |-> "gpt-5-mini", log_dir |-> log_dir,
                  call_count |-> 0]

NextLLM == \E msgs \in MessageLists, answer \in ApiAnswers : Generate(msgs, answer)

SpecLLM == InitLLM /\ [][NextLLM]_vars

(***************************************************************************)
(* SWEEnvironment.generate_patch (envs.py).                                *)
(***************************************************************************)
MaxPatches == 2

\* what env.execute can answer: a string, a dict with "output" and "stdout",
\* or an exception
ExecStr(text) == [kind |-> "str", output |-> text, stdout |-> "", type |-> ""]
ExecDict(output, stdout) == [kind |-> "dict", output |-> output, stdout |-> stdout, type |-> ""]
ExecRaise(type, msg) == [kind |-> "raise", output |-> msg, stdout |-> "", type |-> type]

\* x.get("output", "") or x.get("stdout", "") for a dict, x itself for a string
Coerce(answer) ==
    IF answer.kind = "dict" /\ answer.output = "" THEN answer.stdout ELSE answer.output

\* s.startswith(prefix)
StartsWith(s, prefix) == Len(s) >= Len(prefix) /\ SubSeq(s, 1, Len(prefix)) = prefix

ADiff == "diff --git a/a.py b/a.py\n--- a/a.py\n+++ b/a.py\n@@ -1 +1 @@\n-x = 0\n+x = 1\n"

AddAnswers == {ExecStr(""), ExecDict("", ""), ExecRaise("ValueError", "fatal: not a git repository")}
DiffAnswers ==
    {ExecStr(""), ExecStr(ADiff), ExecStr("\n  " \o ADiff \o "\n"),
     ExecStr("fatal: not a git repository"),
     ExecStr("warning: LF will be replaced by CRLF in a.py\n" \o ADiff),
     ExecStr("   \n"),
     ExecDict(ADiff, ""), ExecDict("", ADiff), ExecDict("", ""),
     ExecDict("No changes", ADiff),
     ExecRaise("TimeoutExpired", "Command 'git diff --cached' timed out after 60 seconds")}
StatusAnswers == {ExecStr(" M a.py\n"), ExecDict("", ""), ExecRaise("ValueError", "fatal: not a git repository")}

Ran(command, answer) == [command |-> command, answer |-> answer]

\* generate_patch that returns whatever git diff printed
GeneratePatch_AnyOutput(add_answer, diff_answer, status_answer) ==
    IF add_answer.kind = "raise"
    THEN [ok |-> TRUE, value |-> "", commands |-> <<Ran("git add -A", add_answer)>>]
    ELSE IF diff_answer.kind = "raise"
    THEN [ok |-> TRUE, value |-> "",
          commands |-> <<Ran("git add -A", add_answer), Ran("git diff --cached", diff_answer)>>]
    ELSE [ok |-> TRUE, value |-> Strip(Coerce(diff_answer)),
          commands |-> <<Ran("git add -A", add_answer), Ran("git diff --cached", diff_answer)>>]

\* generate_patch(result): the value returned and the commands executed, for
\* the answers the environment gives; ok = FALSE would be an exception
\* leaving the method
GeneratePatch(add_answer, diff_answer, status_answer) ==
    IF add_answer.kind = "raise"
    THEN [ok |-> TRUE, value |-> "", commands |-> <<Ran("git add -A", add_answer)>>]
    ELSE IF diff_answer.kind = "raise"
    THEN [ok |-> TRUE, value |-> "",
          commands |-> <<Ran("git add -A", add_answer), Ran("git diff --cached", diff_answer)>>]
    ELSE LET patch_output == Coerce(diff_answer)
         IN  IF patch_output # "" /\ StartsWith(Strip(patch_output), "diff --git")
             THEN [ok |-> TRUE, value |-> Strip(patch_output),
                   commands |-> <<Ran("git add -A", add_answer),
                                  Ran("git diff --cached", diff_answer)>>]
             ELSE [ok |-> TRUE, value |-> "",
                   commands |-> <<Ran("git add -A", add_answer),
                                  Ran("git diff --cached", diff_answer),
                                  Ran("git status --short", status_answer)>>]

\* a generate_patch call
GeneratePatchCall(add_answer, diff_answer, status_answer) ==
    /\ Len(patches) < MaxPatches
    /\ LET res == GeneratePatch(add_answer, diff_answer, status_answer)
       IN  /\ executed' = executed \o res.commands
           /\ patches' = Append(patches, [ok |-> res.ok, value |-> res.value,
                                          ran |-> Len(executed) + Len(res.commands)])
    /\ UNCHANGED <<id_to_message, guard, function_map, pc, step, max_steps, outcome, result,
                   llm_calls, total_calls, adds, runs, run_base, start_guard, untested_edit,
                   returned, raised, twin, input, parses, llm, create_calls, generated,
                   log_file, file_lines, replaced>>

NextPatch ==
    \E add_answer \in AddAnswers, diff_answer \in DiffAnswers, status_answer \in StatusAnswers :
        GeneratePatchCall(add_answer, diff_answer, status_answer)

SpecPatch == Init /\ [][NextPatch]_vars

(***************************************************************************)
(* SWEEnvironment.replace_in_file (envs.py).  The content travels to the   *)
(* container base64-encoded and is decoded there before it is used.        *)
(***************************************************************************)
MaxReplaces == 1

Digits == "0123456789"
IsDigit(c) == \E d \in 1..10 : SubSeq(Digits, d, d) = c
DigitOf(c) == (CHOOSE d \in 1..10 : SubSeq(Digits, d, d) = c) - 1

RECURSIVE DecimalValue(_)
DecimalValue(s) ==
    IF Len(s) = 0 THEN 0
    ELSE 10 * DecimalValue(SubSeq(s, 1, Len(s) - 1)) + DigitOf(SubSeq(s, Len(s), Len(s)))

\* int(s) for a string: blanks around, an optional sign, decimal digits;
\* ok = FALSE stands for the ValueError
IntOf(s) ==
    LET t == Strip(s)
        signed == Len(t) > 0 /\ SubSeq(t, 1, 1) \in {"-", "+"}
        body == IF signed THEN SubSeq(t, 2, Len(t)) ELSE t
        ok == Len(body) > 0 /\ \A i \in 1..Len(body) : IsDigit(SubSeq(body, i, i))
    IN  [ok |-> ok,
         value |-> IF ~ok THEN 0
                   ELSE IF signed /\ SubSeq(t, 1, 1) = "-" THEN 0 - DecimalValue(body)
                   ELSE DecimalValue(body)]

\* content.splitlines(keepends=True), for text whose line ends are "\n"
SplitKeepEnds(s) ==
    LET parts == SplitLines(s)
        n == Len(parts)
    IN  IF s = "" THEN <<>>
        ELSE [i \in 1..(IF parts[n] = "" THEN n - 1 ELSE n) |->
                 IF i < n THEN parts[i] \o "\n" ELSE parts[i]]

\* the new lines the script writes: the lines of the content, one empty line
\* for empty content, the last line ended by "\n"
NewLines(content) ==
    LET lines == SplitKeepEnds(content)
        new_lines == IF Len(lines) = 0 THEN <<"">> ELSE lines
        last == new_lines[Len(new_lines)]
    IN  IF Len(last) > 0 /\ SubSeq(last, Len(last), Len(last)) = "\n" THEN new_lines
        ELSE [i \in 1..Len(new_lines) |->
                 IF i = Len(new_lines) THEN last \o "\n" ELSE new_lines[i]]

\* lines[:k] and lines[k:] of Python, k possibly negative or past the end
SliceTo(lines, k) ==
    LET e == IF k < 0 THEN Len(lines) + k ELSE k
    IN  SubSeq(lines, 1, IF e < 0 THEN 0 ELSE IF e > Len(lines) THEN Len(lines) ELSE e)
SliceFrom(lines, k) ==
    LET b == IF k < 0 THEN Len(lines) + k ELSE k
    IN  SubSeq(lines, (IF b < 0 THEN 0 ELSE b) + 1, Len(lines))

\* the line numbers as replace_in_file hands them to the script: swapped when
\* to_line < from_line, then each raised to 1
NormalizeLines(from_line, to_line) ==
    LET f == IF to_line < from_line THEN to_line ELSE from_line
        t == IF to_line < from_line THEN from_line ELSE to_line
    IN  [from_line |-> IF f < 1 THEN 1 ELSE f, to_line |-> IF t < 1 THEN 1 ELSE t]

\* the range the script replaces in a file of n lines: numbers past the end
\* are set to append, and a to_line below from_line swaps the two
ScriptRange(n, from_line, to_line) ==
    LET f == IF from_line > n + 1 THEN n + 1 ELSE from_line
        t == IF from_line > n + 1 THEN n ELSE to_line
    IN  [from_line |-> IF t < f THEN t ELSE f, to_line |-> IF t < f THEN f ELSE t,
         adjusted |-> from_line > n + 1]

\* the script with an end index one short: the last line of the range stays
ReplaceLines_KeepsLastOfRange(lines, from_line, to_line, content) ==
    LET r == ScriptRange(Len(lines), from_line, to_line)
    IN  SliceTo(lines, r.from_line - 1) \o NewLines(content) \o SliceFrom(lines, r.to_line - 1)

\* new_file_lines of the script
ReplaceLines(lines, from_line, to_line, content) ==
    LET r == ScriptRange(Len(lines), from_line, to_line)
    IN  SliceTo(lines, r.from_line - 1) \o NewLines(content) \o SliceFrom(lines, r.to_line)

\* what the script prints on success
ReplacedMessage(n, from_line, to_line, file_path) ==
    LET r == ScriptRange(n, from_line, to_line)
    IN  "Successfully replaced lines " \o ToString(r.from_line) \o " to "
        \o ToString(r.to_line) \o " (" \o ToString(r.to_line - r.from_line + 1)
        \o " lines) in " \o file_path \o "\n"

\* file_path.strip(), without a leading "./"
NormalizePath(file_path) ==
    LET t == Strip(file_path)
    IN  IF StartsWith(t, "./") THEN SubSeq(t, 3, Len(t)) ELSE t

\* the one file of the container
TheFile == "test.py"
Files ==
    {<<>>, <<"line1\n", "line2\n">>, <<"l1\n", "l2\n", "l3">>,
     <<"a = 1\n", "\n", "b = 2\n", "c = 3\n">>}
FilePaths == {"  ./test.py ", "missing.py", " "}
LineArgs == {"-1", "0", "1", " 2 ", "3", "5", "abc"}
Contents == {"new\n", "x\ny", ""}
\* the contents of a call after the first
LaterContents == {"z"}

ReplaceError(file_path, msg) == "Error replacing lines in " \o file_path \o ": " \o msg

\* a replace_in_file call; when the script exits with status 1, execute
\* either hands back what the script printed or raises with it
ReplaceInFile(file_path, from_line, to_line, content, raises) ==
    /\ Len(replaced) < MaxReplaces
    /\ LET path == NormalizePath(file_path)
           f == IntOf(from_line)
           t == IntOf(to_line)
           nl == NormalizeLines(f.value, t.value)
           call == [file_path |-> file_path, from_line |-> from_line, to_line |-> to_line,
                    content |-> content, before |-> file_lines]
           Done(kind, text) ==
               replaced' = Append(replaced, [call |-> call, kind |-> kind, text |-> text])
       IN  IF path = ""
           THEN /\ Done("raise", ReplaceError(path, "File path cannot be empty"))
                /\ UNCHANGED file_lines
           ELSE IF ~f.ok \/ ~t.ok
           THEN /\ Done("raise",
                        ReplaceError(path, "Line numbers must be integers. Got from_line="
                                           \o from_line \o ", to_line=" \o to_line))
                /\ UNCHANGED file_lines
           ELSE IF path # TheFile
           THEN /\ LET msg == "Error: File " \o path \o " does not exist\n"
                   IN  IF raises THEN Done("raise", ReplaceError(path, msg))
                       ELSE Done("return", msg)
                /\ UNCHANGED file_lines
           ELSE /\ file_lines' = ReplaceLines(file_lines, nl.from_line, nl.to_line, content)
                /\ Done("return", ReplacedMessage(Len(file_lines), nl.from_line, nl.to_line, path))
    /\ UNCHANGED <<id_to_message, guard, function_map, pc, step, max_steps, outcome, result,
                   llm_calls, total_calls, adds, runs, run_base, start_guard, untested_edit,
                   returned, raised, twin, input, parses, llm, create_calls, generated,
                   log_file, executed, patches>>

InitFile ==
    /\ Constructed
    /\ input = ""
    /\ parses = <<>>
    /\ llm = AgentLLM
    /\ file_lines \in Files

NextFile ==
    \E file_path \in FilePaths, from_line \in LineArgs, to_line \in LineArgs,
       content \in (IF replaced = <<>> THEN Contents ELSE LaterContents),
       raises \in BOOLEAN :
        ReplaceInFile(file_path, from_line, to_line, content, raises)

SpecFile == InitFile /\ [][NextFile]_vars

\* generate calls followed from the API's answer to the parsed call
MaxDispatches == 2

\* what the API answers: reasoning with an example block and then the real
\* block, or reasoning and one block
DispatchAnswers ==
    {ApiAnswer(TwoBlockText[c], <<>>) : c \in TwoBlockCalls}
    \cup {ApiAnswer(WellFormedText[c], <<>>) : c \in WellFormedCalls}

\* response = self.llm.generate(messages); function_call = self.parser.parse(response)
GenerateAndParse(answer) ==
    /\ Len(create_calls) < MaxDispatches
    /\ LET msgs == FormatMessages(GetMessagesForLLM(id_to_message, function_map))
           kwargs == [model |-> llm.model_name, input |-> msgs, max_output_tokens |-> 4096]
           res == GenerateResult(llm, answer)
       IN  /\ create_calls' =
                Append(create_calls,
                       [kwargs |-> kwargs, answer |-> answer,
                        id |-> ResponseId(Len(create_calls) + 1)])
           /\ generated' = Append(generated, res)
           /\ parses' = IF res.ok THEN Append(parses, Parse(res.text)) ELSE parses
    /\ UNCHANGED <<id_to_message, guard, function_map, pc, step, max_steps, outcome, result,
                   llm_calls, total_calls, adds, runs, run_base, start_guard, untested_edit,
                   returned, raised, twin, input, llm, log_file, executed, patches,
                   file_lines, replaced>>

NextDispatch == \E answer \in DispatchAnswers : GenerateAndParse(answer)

SpecDispatch == Init /\ [][NextDispatch]_vars

\* the parser alone, on each of its inputs
InitParser ==
    /\ Constructed
    /\ input \in ParserInputs
    /\ parses = <<>>
    /\ llm = AgentLLM
    /\ file_lines = <<>>

NextParser == ParseCall \/ ReparseCall

SpecParser == InitParser /\ [][NextParser]_vars

\* two agents whose owners register tools, one in pairs and one singly
ToolPool == {"replace_in_file", "run_test", "run_bash_cmd", "grep"}
PairLists == {<<a, b>> : a \in ToolPool, b \in ToolPool} \ {<<a, a>> : a \in ToolPool}
SingleLists == {<<a>> : a \in ToolPool}

NextRegistry ==
    \/ \E tools \in PairLists : AddFunctions(tools)
    \/ \E tools \in SingleLists : TwinAddFunctions(tools)

SpecRegistry == Init /\ [][NextRegistry]_vars

\* an owner who appends messages, registers tools and rewrites contents
NextUpdate ==
    \/ \E role \in NoteRoles, content \in NoteContents : AddMessageCall(role, content)
    \/ \E message_id \in TriedIds, content \in NoteContents :
           SetMessageContentCall(message_id, content)
    \/ \E tools \in ToolLists : AddFunctions(tools)

SpecUpdate == Init /\ [][NextUpdate]_vars

\* a model whose calls fail in each way a step can fail
MaxCallsErrors == 4

NextErrors ==
    \/ \E tools \in ToolLists : AddFunctions(tools)
    \/ \E task \in Tasks, k \in 0..(MaxCallsErrors - total_calls) : RunStart(task, k)
    \/ \E e \in LLMErrors : LLMFails(e)
    \/ \E response \in ErrorResponses : ParseFails(response)
    \/ \E response \in ErrorResponses : FinishCall(response)
    \/ \E response \in ErrorResponses : UnknownTool(response)
    \/ \E response \in ErrorResponses :
           \E out \in ToolOutcomes(ParseTable[response].name, ParseTable[response].arguments) :
               ToolCall(response, out)
    \/ MaxStepsReached

SpecErrors == Init /\ [][NextErrors]_vars

\* the same agent followed through the steps that have no guard effect
MaxCallsFrame == 4

NextFrame ==
    \/ \E tools \in ToolLists : AddFunctions(tools)
    \/ \E task \in Tasks, k \in 0..(MaxCallsFrame - total_calls) : RunStart(task, k)
    \/ \E e \in LLMErrors : LLMFails(e)
    \/ \E response \in FrameResponses : ParseFails(response)
    \/ \E response \in FrameResponses : FinishCall(response)
    \/ \E response \in FrameResponses : UnknownTool(response)
    \/ \E response \in FrameResponses :
           \E out \in ToolOutcomes(ParseTable[response].name, ParseTable[response].arguments) :
               ToolCall(response, out)
    \/ MaxStepsReached

SpecFrame == Init /\ [][NextFrame]_vars

TypeOK ==
    /\ pc \in {"idle", "running"}
    /\ outcome \in {"none", "finish", "max_steps", "raised"}
    /\ step \in 0..max_steps
    /\ \A i \in 1..Len(id_to_message) : id_to_message[i].unique_id = i - 1


(***************************************************************************)
(* Properties.                                                             *)
(***************************************************************************)
GuardsPass ==
    saw_failing_test /\ made_edit /\ ran_tests_after_edit /\ ~last_test_had_failure

AllFalse == <<FALSE, FALSE, FALSE, FALSE>>

\* the messages the active (or last) run appended
Seg == SubSeq(id_to_message, run_base + 1, Len(id_to_message))

\* message m is an assistant turn whose parsed call has a name in names
IsCallTo(m, names) ==
    /\ m.role = "assistant"
    /\ m.content \in AllResponses
    /\ ParseTable[m.content].ok
    /\ ParseTable[m.content].name \in names

\* message m is the observation of a returned text in texts
IsObservationOf(m, texts) ==
    m.role = "user" /\ \E t \in texts : m.content = "Observation: " \o t

\* the result argument of the finish call in message m
ResultArg(m) == DictGet(ParseTable[m.content].arguments, "result", "")

SomeFinishCall == \E response \in Responses : FinishCall(response)

SuccessTexts == {t \in ReturnTexts : ReportsSuccessOf[t]}
FailureTexts == {t \in ReturnTexts : HasTestFailureOf[t]}
CleanTexts == {t \in ReturnTexts : ~HasTestFailureOf[t] /\ ~ReportsSuccessOf[t]}
TestNames == {"run_test", "run_relevant_tests"}

\* C1: run ends by an accepted finish, returning the finish handler's value
\* for the model's result argument, only with saw_failing_test, made_edit and
\* ran_tests_after_edit true and last_test_had_failure false; a parsed finish
\* call in any other guard state leaves the loop running.
C1_FinishOnlyWhenGuardsPass ==
    /\ [](outcome = "finish" =>
            /\ GuardsPass
            /\ result = Finish(ResultArg(id_to_message[Len(id_to_message)])))
    /\ [][SomeFinishCall /\ ~GuardsPass => pc' = "running" /\ outcome' = "none"]_vars

C1_Witness == outcome = "finish" /\ GuardsPass /\ result = "Fixed the issue"

\* a run in which every generate call returned a finish call
OnlyFinishCalls ==
    /\ Cardinality({i \in 1..Len(Seg) : Seg[i].role = "assistant"}) = llm_calls
    /\ \A i \in 1..Len(Seg) : Seg[i].role = "assistant" => IsCallTo(Seg[i], {"finish"})

\* C2: with made_edit false a parsed finish call is rejected: the run goes
\* on, a user message is appended and the step is counted; a run of finish
\* calls only, with no edit, ends with "Max steps reached" after exactly
\* max_steps generate calls.
C2_NoEditNoFinish ==
    /\ [][SomeFinishCall /\ ~made_edit =>
            /\ pc' = "running"
            /\ step' = step + 1
            /\ Len(id_to_message') = Len(id_to_message) + 2
            /\ id_to_message'[Len(id_to_message')].role = "user"]_vars
    /\ [](pc = "idle" /\ runs > 0 /\ OnlyFinishCalls /\ ~made_edit =>
            /\ outcome = "max_steps"
            /\ result = "Max steps reached"
            /\ llm_calls = max_steps)

C2_Witness ==
    /\ pc = "idle" /\ outcome = "max_steps" /\ OnlyFinishCalls /\ ~made_edit
    /\ max_steps >= 2 /\ llm_calls = max_steps

\* the four calls of C3 made first in a run that began with all flags false:
\* edit reporting success, finish, test call returning "2 passed ...", finish
C3_Scenario ==
    /\ start_guard = AllFalse
    /\ Len(Seg) >= 7
    /\ IsCallTo(Seg[1], {"replace_in_file"})
    /\ IsObservationOf(Seg[2], SuccessTexts)
    /\ IsCallTo(Seg[3], {"finish"})
    /\ IsCallTo(Seg[5], TestNames)
    /\ IsObservationOf(Seg[6], {t \in CleanTexts : Contains(t, "2 passed")})
    /\ IsCallTo(Seg[7], {"finish"})

\* C3 as claimed: the first finish is rejected for the missing test run and
\* the second finish is accepted, run returning its result
C3_Original ==
    C3_Scenario =>
        /\ Seg[4].content = RejectNoTests
        /\ outcome = "finish"
        /\ result = ResultArg(Seg[7])

\* C3: in the four-call sequence from all flags false, both finish calls are
\* rejected with the message that no failing test was reproduced, and the
\* run does not return at the fourth call.
C3_BothFinishRejected ==
    C3_Scenario =>
        /\ Seg[4] = [role |-> "user", content |-> RejectNoFailingTest,
                     unique_id |-> run_base + 3]
        /\ Len(Seg) >= 8
        /\ Seg[8] = [role |-> "user", content |-> RejectNoFailingTest,
                     unique_id |-> run_base + 7]
        /\ llm_calls = 4 => outcome # "finish"

C3_Witness == C3_Scenario /\ ResultArg(Seg[7]) = "Fixed the issue"

\* the four calls of C4 made first in a run: failing run_test, edit reporting
\* success, run_test without failure token, finish
C4_Scenario ==
    /\ Len(Seg) >= 7
    /\ IsCallTo(Seg[1], {"run_test"})
    /\ IsObservationOf(Seg[2], FailureTexts)
    /\ IsCallTo(Seg[3], {"replace_in_file"})
    /\ IsObservationOf(Seg[4], SuccessTexts)
    /\ IsCallTo(Seg[5], {"run_test"})
    /\ IsObservationOf(Seg[6], CleanTexts)
    /\ IsCallTo(Seg[7], {"finish"})

\* C4: after a failing run_test, an edit returning the success marker and a
\* run_test without failure token, finish with result r is accepted and run
\* returns r.
C4_FinishAfterFixAccepted ==
    C4_Scenario => outcome = "finish" /\ result = ResultArg(Seg[7])


\* C5: every accepted finish comes after a recognized test call made since
\* the last replace_in_file call that reported success.
C5_TestBetweenEditAndFinish == outcome = "finish" => ~untested_edit

\* C6: run makes one generate call per loop iteration, never more than
\* max_steps of them, and every active run ends.
C6_BudgetTermination ==
    /\ [](llm_calls = step /\ llm_calls <= max_steps)
    /\ [][pc = "running" /\ pc' = "running" =>
            step' = step + 1 /\ llm_calls' = llm_calls + 1]_vars
    /\ (pc = "running" ~> pc = "idle")

C6_Witness ==
    /\ pc = "idle" /\ outcome = "max_steps" /\ max_steps = 3 /\ llm_calls = max_steps
    /\ \E i \in 1..Len(Seg) : Seg[i].content \in {LLMErrorMessage(e) : e \in LLMErrors}
    /\ \E i \in 1..Len(Seg) : Seg[i].content \in RejectionTexts

\* positions in Seg of the finish calls and of the rejection messages
FinishCalls == {i \in 1..Len(Seg) : IsCallTo(Seg[i], {"finish"})}
Rejections ==
    {i \in 1..Len(Seg) : Seg[i].role = "user" /\ Seg[i].content \in RejectionTexts}
\* the finish call that ended the run, if one did
EndingCall == IF outcome \in {"finish", "raised"} THEN {Len(Seg)} ELSE {}

\* C7: the rejection messages of a run are exactly the messages that follow
\* its finish calls, one user message per rejected finish, and a step that
\* appends a rejection leaves the run in its loop.
C7_OneMessagePerRejection ==
    /\ [](Rejections = {i + 1 : i \in FinishCalls \ EndingCall})
    /\ [][SomeFinishCall /\ Len(id_to_message') > Len(id_to_message) + 1 =>
            /\ pc' = "running"
            /\ id_to_message'[Len(id_to_message')].content \in RejectionTexts]_vars

C7_Witness == Cardinality(Rejections) >= 3 /\ pc = "running"

\* C8: the value returned by an accepted finish is never the value returned
\* on budget exhaustion.
C8_OutcomesDistinguishable == outcome = "finish" => result # MaxStepsResult

\* C9: a run that exhausts max_steps returns "Max steps reached", whatever
\* the guard flags are.
C9_MaxStepsLabel ==
    outcome = "max_steps" => result = "Max steps reached" /\ step = max_steps

C9_Witness == outcome = "max_steps" /\ ~made_edit /\ max_steps > 0 /\ ~GuardsPass

\* C10: every run begins with the four guard flags false.
C10_GuardPerRun == pc = "running" /\ step = 0 => guard = AllFalse

\* C11: made_edit never goes from true to false, whatever step is taken:
\* tool calls, test runs, rejected finishes, LLM and parse failures, and the
\* start and end of a run.
C11_MadeEditMonotone == [][made_edit => made_edit']_vars

C11_Witness ==
    /\ made_edit /\ last_test_had_failure /\ pc = "running"
    /\ Len(Seg) >= 6
    /\ Seg[Len(Seg)].content = RejectFailing

\* the step appended a call to a tool in names and the observation of one of texts
CallStep(names, texts) ==
    /\ Len(id_to_message') = Len(id_to_message) + 2
    /\ IsCallTo(id_to_message'[Len(id_to_message) + 1], names)
    /\ IsObservationOf(id_to_message'[Len(id_to_message) + 2], texts)

\* the step is a recognized test-execution call that returned
TestStep ==
    \/ CallStep(TestNames, ReturnTexts)
    \/ /\ CallStep({"run_bash_cmd"}, ReturnTexts)
       /\ IsTestCommandOf[DictGet(ParseTable[id_to_message'[Len(id_to_message) + 1].content].arguments,
                                  "command", "")]

C12_RanImpliesEdit == [](ran_tests_after_edit => made_edit)
C12_EditResets == [][CallStep({"replace_in_file"}, SuccessTexts) => ~ran_tests_after_edit']_vars
C12_SetOnlyByTest ==
    [][~ran_tests_after_edit /\ ran_tests_after_edit' => made_edit /\ TestStep]_vars

\* C12: ran_tests_after_edit implies made_edit; every replace_in_file call
\* that reports success sets ran_tests_after_edit to false; and only a
\* recognized test-execution call taken while made_edit is true sets it.
C12_TestsAfterEditDiscipline == C12_RanImpliesEdit /\ C12_EditResets /\ C12_SetOnlyByTest

\* C13: run never propagates an exception, and a step that leaves the run
\* in its loop has appended a user message: LLM errors, unparseable
\* responses, unknown tools, tool exceptions and finish calls with any
\* arguments included.
C13_NoFatalFailure ==
    /\ [](outcome # "raised")
    /\ [][pc = "running" /\ pc' = "running" =>
            /\ Len(id_to_message') > Len(id_to_message)
            /\ id_to_message'[Len(id_to_message')].role = "user"]_vars

\* the step is a set_message_content call of the owner
SomeSetMessageContentCall ==
    \E message_id \in TriedIds, content \in NoteContents :
        SetMessageContentCall(message_id, content)

\* C14: the message at index i has unique_id = i; no step shortens the list,
\* removes or reorders a message (role and unique_id stay at their index, and
\* so does the content of every message but the two anchors); add_message
\* returns the index of the message it appended.
C14_AppendOnly ==
    /\ [](\A i \in 1..Len(id_to_message) : id_to_message[i].unique_id = i - 1)
    /\ [][/\ Len(id_to_message') >= Len(id_to_message)
          /\ \A i \in 1..Len(id_to_message) :
                /\ id_to_message'[i].role = id_to_message[i].role
                /\ id_to_message'[i].unique_id = id_to_message[i].unique_id
                /\ i > user_message_id + 1 => id_to_message'[i] = id_to_message[i]]_vars
    /\ [][Len(returned') > Len(returned) =>
            /\ Len(id_to_message') = Len(id_to_message) + 1
            /\ returned'[Len(returned')] = Len(id_to_message)
            /\ id_to_message'[returned'[Len(returned')] + 1].content \in NoteContents
            /\ id_to_message'[returned'[Len(returned')] + 1].unique_id
                   = returned'[Len(returned')]]_vars

C14_Witness ==
    /\ Len(returned) = 2 /\ returned[2] > returned[1] + 2
    /\ adds > 0 /\ runs > 0 /\ pc = "idle"

\* C17: set_message_content with an id outside 0..len-1 fails and changes no
\* message; with an id inside it changes the content of that message only.
C17_SetMessageContent ==
    [][\A message_id \in TriedIds, content \in NoteContents :
          SetMessageContentCall(message_id, content) =>
              IF message_id \in 0..(Len(id_to_message) - 1)
              THEN /\ raised' = ""
                   /\ id_to_message' =
                        [id_to_message EXCEPT ![message_id + 1].content = content]
              ELSE /\ raised' = "IndexError"
                   /\ id_to_message' = id_to_message]_vars

\* the system content get_messages_for_llm sends for an agent
SystemContentForLLM(msgs, fmap) == GetMessagesForLLM(msgs, fmap)[system_message_id + 1].content

\* C15: two agents with the same registry, however their add_functions calls
\* were grouped, send the same system content, and that content describes
\* every registered tool.
C15_RenderingFromRegistry ==
    /\ function_map = twin.function_map =>
           SystemContentForLLM(id_to_message, function_map)
               = SystemContentForLLM(twin.id_to_message, twin.function_map)
    /\ \A i \in 1..Len(function_map) :
           Contains(SystemContentForLLM(id_to_message, function_map),
                    ToolDescription(function_map[i]))

\* the second part of C15 alone: the content sent describes the registry
C15_ReflectsRegistry ==
    \A i \in 1..Len(function_map) :
        Contains(SystemContentForLLM(id_to_message, function_map),
                 ToolDescription(function_map[i]))

\* C16: the stored content of the system message is the base prompt, and
\* the only step that changes a stored content is the start of a run, which
\* changes the content of the user task message.
C16_StoredContentsKept ==
    /\ [](id_to_message[system_message_id + 1].content = initial_system_content)
    /\ [][\A i \in 1..Len(id_to_message) :
             id_to_message'[i].content # id_to_message[i].content =>
                 i = user_message_id + 1 /\ pc = "idle" /\ pc' = "running"]_vars

\* the arguments a call block written from the list a holds: names and
\* values without the whitespace around them
ExpectedArgs(a) == [i \in 1..Len(a) |-> <<Strip(a[i][1]), Strip(a[i][2])>>]

\* C18: for a text with an example block in the reasoning and then the real
\* block, parse returns the name and arguments of the second block; the
\* first block is inside thought and gives no argument.
C18_LastBlockWins ==
    Len(parses) >= 1 =>
        \A c \in TwoBlockCalls :
            input = TwoBlockText[c] =>
                /\ parses[1].ok
                /\ parses[1].name = Strip(c[2])
                /\ parses[1].arguments = ExpectedArgs(c[3])
                /\ Contains(parses[1].thought, c[1])
                /\ "name_pattern" \notin DictKeys(parses[1].arguments)

C18_Witness ==
    /\ Len(parses) >= 1
    /\ input = TwoBlockText[<<Block("find_files", << <<"name_pattern", "*.py">> >>), "grep",
                              << <<"pattern", "def f">> >> >>]
    /\ parses[1].name = "grep"
    /\ parses[1].arguments = << <<"pattern", "def f">> >>

\* 1-based positions at which m occurs in s
Occurrences(s, m) == {i \in 1..(Len(s) - Len(m) + 1) : SubSeq(s, i, i + Len(m) - 1) = m}

\* no begin marker, no end marker, or every end marker before some begin marker
NoCallIn(s) ==
    \/ Occurrences(s, BEGIN_CALL) = {}
    \/ Occurrences(s, END_CALL) = {}
    \/ \A j \in Occurrences(s, END_CALL) : \E i \in Occurrences(s, BEGIN_CALL) : j < i

\* C19: parse raises exactly when the begin marker is absent, the end
\* marker is absent, or the last end marker lies before the last begin
\* marker; otherwise it returns thought, name and arguments.
C19_FailsExactlyWithoutCall ==
    Len(parses) >= 1 =>
        /\ ~parses[1].ok <=> NoCallIn(input)
        /\ ~parses[1].ok => parses[1].error = "No valid function call found"
        /\ parses[1].ok => parses[1].error = ""

C19_Witness ==
    /\ Len(parses) >= 1 /\ ~parses[1].ok
    /\ Occurrences(input, BEGIN_CALL) # {} /\ Occurrences(input, END_CALL) # {}

\* C20: a well-formed block with a non-empty name and N >= 0 arguments
\* parses to that name and those arguments, and the parsed call written in
\* the response format parses to the same name and arguments again.
C20_RoundTrip ==
    Len(parses) = 2 =>
        \A c \in WellFormedCalls :
            input = WellFormedText[c] =>
                /\ parses[2].ok
                /\ parses[2].name = parses[1].name
                /\ parses[2].arguments = parses[1].arguments
                /\ parses[1].name = Strip(c[2])
                /\ parses[1].arguments = ExpectedArgs(c[3])

C20_Witness ==
    /\ Len(parses) = 2
    /\ input = WellFormedText[<<"I will search.", "grep",
                                << <<"file_path", "a.py">>,
                                   <<"content", "x = 1\n\n  y = 2">> >> >>]
    /\ parses[2].arguments = << <<"file_path", "a.py">>, <<"content", "x = 1\n\n  y = 2">> >>

\* the trailing text t adds no marker occurrence to r: none inside t and
\* none completed across the junction of r and t
AddsNoMarker(r, t) ==
    /\ Occurrences(r \o t, BEGIN_CALL) = Occurrences(r, BEGIN_CALL)
    /\ Occurrences(r \o t, END_CALL) = Occurrences(r, END_CALL)

\* C21 as stated: for every well-formed response R ending with the end
\* marker and every trailing text T, parse(R + T) returns the name and
\* arguments of parse(R).
C21_Original ==
    Len(parses) >= 1 =>
        \A c \in TrailingCalls :
            input = TrailingText[c] =>
                /\ parses[1].ok
                /\ parses[1].name = Strip(c[1][2])
                /\ parses[1].arguments = ExpectedArgs(c[1][3])

\* C21: for every well-formed response R ending with the end marker and
\* every trailing text T that adds no occurrence of the begin or end marker,
\* parse(R + T) returns the name and arguments of parse(R).
C21_TrailingTextIgnored ==
    Len(parses) >= 1 =>
        \A c \in TrailingCalls :
            input = TrailingText[c] /\ AddsNoMarker(WellFormedText[c[1]], c[2]) =>
                /\ parses[1].ok
                /\ parses[1].name = Strip(c[1][2])
                /\ parses[1].arguments = ExpectedArgs(c[1][3])

C21_Witness ==
    /\ Len(parses) >= 1
    /\ input = TrailingText[<< <<"I will search.", "grep", << <<"pattern", "def f">> >> >>,
                               "\n" \o ARG_SEP \o "\nextra\n" \o VALUE_SEP \o "\n1" >>]
    /\ parses[1].name = "grep"
    /\ parses[1].arguments = << <<"pattern", "def f">> >>

\* 1-based positions in the written list a at which a name appears first
FirstSeen(a) == {i \in 1..Len(a) : \A j \in 1..(i - 1) : Strip(a[j][1]) # Strip(a[i][1])}

\* the value written with the last occurrence of the name k in a
LastValueOf(a, k) ==
    LET last == CHOOSE i \in 1..Len(a) :
                    /\ Strip(a[i][1]) = k
                    /\ \A j \in (i + 1)..Len(a) : Strip(a[j][1]) # k
    IN  Strip(a[last][2])

\* C22: when a call body names an argument more than once, the parsed
\* arguments hold one entry for that name, with the value of its last
\* occurrence, at the position of its first occurrence; distinct names keep
\* the order of their first appearance.
C22_DuplicateLastWins ==
    Len(parses) >= 1 =>
        \A c \in DuplicateCalls :
            input = DuplicateText[c] =>
                LET a == c[3]
                    args == parses[1].arguments
                IN  /\ parses[1].ok
                    /\ Len(args) = Cardinality(FirstSeen(a))
                    /\ Cardinality(DictKeys(args)) = Len(args)
                    /\ \A i \in FirstSeen(a) :
                           LET n == Cardinality({j \in FirstSeen(a) : j <= i})
                           IN  /\ args[n][1] = Strip(a[i][1])
                               /\ args[n][2] = LastValueOf(a, Strip(a[i][1]))

C22_Witness ==
    /\ Len(parses) >= 1
    /\ input = DuplicateText[<<"", "grep",
                               << <<"a", "1">>, <<"b", "2">>, <<"a", "3">>, <<"b", "">>,
                                  <<"c", "5">>, <<"a", "6\n7">> >> >>]
    /\ parses[1].arguments = << <<"a", "6\n7">>, <<"b", "">>, <<"c", "5">> >>

\* the last call of client.responses.create that got a response, 0 if none
LastAnswered ==
    LET A == {n \in 1..Len(create_calls) : create_calls[n].answer.kind = "response"}
    IN  IF A = {} THEN 0 ELSE CHOOSE n \in A : \A m \in A : m <= n

\* C23: across the generate calls on one OpenAIModel, the first request
\* carries previous_response_id = None, the n-th request (n > 1) carries the
\* id returned by the (n-1)-th response, and after each call the model's
\* prev_response_id is the id of the latest response.
C23_ResponseIdChaining ==
    /\ \A n \in 1..Len(create_calls) :
           /\ n = 1 => KwargsGet(create_calls[n].kwargs, "previous_response_id") = None
           /\ n > 1 /\ create_calls[n - 1].answer.kind = "response" =>
                  KwargsGet(create_calls[n].kwargs, "previous_response_id")
                      = create_calls[n - 1].id
    /\ LastAnswered > 0 =>
           /\ "prev_response_id" \in DOMAIN llm
           /\ llm["prev_response_id"] = create_calls[LastAnswered].id

\* the text of the model in the i-th answer
ModelText(i) == ExtractText(create_calls[i].answer).text

\* s ends with the suffix e
EndsWith(s, e) == Len(s) >= Len(e) /\ SubSeq(s, Len(s) - Len(e) + 1, Len(s)) = e

\* C24: every string generate returns ends with a newline followed by the
\* stop token and contains the stop token exactly once; what the model wrote
\* from its first stop token on is discarded: the rest of the string is the
\* stripped text before that token.
C24_OneStopTokenAtEnd ==
    \A i \in 1..Len(generated) :
        generated[i].ok =>
            LET text == generated[i].text
                stop == llm.stop_token
                raw == ModelText(i)
                first == Occurrences(raw, stop)
                kept == IF first = {} THEN raw
                        ELSE SubSeq(raw, 1, (CHOOSE j \in first : \A k \in first : j <= k) - 1)
            IN  /\ EndsWith(text, "\n" \o stop)
                /\ Cardinality(Occurrences(text, stop)) = 1
                /\ text = Strip(kept) \o "\n" \o stop

C24_Witness ==
    /\ Len(generated) = 2
    /\ create_calls[2].answer.output_text = "Response text " \o END_CALL \o " extra text"
    /\ llm.stop_token = END_CALL
    /\ generated[2].ok
    /\ generated[2].text = "Response text\n" \o END_CALL

\* the commands the i-th generate_patch call gave to the environment
PatchCommands(i) ==
    SubSeq(executed, (IF i = 1 THEN 0 ELSE patches[i - 1].ran) + 1, patches[i].ran)

\* C25: generate_patch never raises and returns "" or a string that begins
\* with "diff --git": the stripped output of "git diff --cached" when that
\* begins with "diff --git", and "" for any other output and for any
\* exception of the environment; "git add -A" is issued before
\* "git diff --cached".
C25_PatchOrEmpty ==
    \A i \in 1..Len(patches) :
        LET cmds == PatchCommands(i)
            valid == /\ Len(cmds) >= 2
                     /\ \A j \in 1..Len(cmds) : cmds[j].answer.kind # "raise"
                     /\ StartsWith(Strip(Coerce(cmds[2].answer)), "diff --git")
        IN  /\ patches[i].ok
            /\ patches[i].value = "" \/ StartsWith(patches[i].value, "diff --git")
            /\ valid => patches[i].value = Strip(Coerce(cmds[2].answer))
            /\ ~valid => patches[i].value = ""
            /\ cmds[1].command = "git add -A"
            /\ \A j \in 1..Len(cmds) : cmds[j].command = "git diff --cached" => j = 2
            /\ \A j \in 1..(Len(cmds) - 1) : cmds[j].answer.kind # "raise"

C25_Witness ==
    /\ Len(patches) = 2
    /\ patches[1].value = "" /\ Len(PatchCommands(1)) = 3
    /\ PatchCommands(1)[2].answer = ExecStr("warning: LF will be replaced by CRLF in a.py\n" \o ADiff)
    /\ PatchCommands(1)[3].answer.kind = "raise"
    /\ patches[2].value = Strip(ADiff)
    /\ PatchCommands(2)[2].answer = ExecDict("", ADiff)

\* the replace_in_file calls that reached the file: a path naming it and
\* line numbers that are integers
Edited(i) ==
    /\ replaced[i].kind = "return"
    /\ NormalizePath(replaced[i].call.file_path) = TheFile

\* the lines of a call's content as a file holds them: the content, ended
\* by a newline
RECURSIVE Concat(_)
Concat(lines) == IF Len(lines) = 0 THEN "" ELSE lines[1] \o Concat(Tail(lines))

Ended(content) == IF EndsWith(content, "\n") THEN content ELSE content \o "\n"

\* the lines of the file after the i-th call
LinesAfter(i) == IF i < Len(replaced) THEN replaced[i + 1].call.before ELSE file_lines

\* C26: replace_in_file called with line numbers beyond the end of an
\* n-line file (from_line > n + 1) appends the new content: the n existing
\* lines remain, in order, followed by the new lines.
C26_AppendsPastEnd ==
    \A i \in 1..Len(replaced) :
        Edited(i) =>
            LET c == replaced[i].call
                n == Len(c.before)
                after == LinesAfter(i)
            IN  IntOf(c.from_line).value > n + 1 /\ IntOf(c.to_line).value > n + 1 =>
                    /\ Len(after) > n
                    /\ SubSeq(after, 1, n) = c.before
                    /\ Concat(SubSeq(after, n + 1, Len(after))) = Ended(c.content)

\* C27: for an n-line file and integer line numbers, replace_in_file swaps
\* from_line and to_line when to_line < from_line and raises values below 1
\* to 1; with the resulting 1 <= from <= to <= n the new file is the old
\* lines 1..from-1, the new content lines, then the old lines to+1..n.
C27_ReplacesRangeOnly ==
    \A i \in 1..Len(replaced) :
        Edited(i) =>
            LET c == replaced[i].call
                n == Len(c.before)
                after == LinesAfter(i)
                a == IntOf(c.from_line).value
                b == IntOf(c.to_line).value
                lo == IF b < a THEN b ELSE a
                hi == IF b < a THEN a ELSE b
                from == IF lo < 1 THEN 1 ELSE lo
                to == IF hi < 1 THEN 1 ELSE hi
                m == Len(after) - (n - to) - (from - 1)
            IN  from <= to /\ to <= n =>
                    /\ m >= 1
                    /\ SubSeq(after, 1, from - 1) = SubSeq(c.before, 1, from - 1)
                    /\ SubSeq(after, from + m, Len(after)) = SubSeq(c.before, to + 1, n)
                    /\ Concat(SubSeq(after, from, from + m - 1)) = Ended(c.content)
                    /\ replaced[i].text = "Successfully replaced lines " \o ToString(from)
                           \o " to " \o ToString(to) \o " (" \o ToString(to - from + 1)
                           \o " lines) in " \o TheFile \o "\n"

C27_Witness ==
    /\ Len(replaced) >= 1
    /\ replaced[1].call.before = <<"a = 1\n", "\n", "b = 2\n", "c = 3\n">>
    /\ replaced[1].call.from_line = "3" /\ replaced[1].call.to_line = "-1"
    /\ replaced[1].call.content = "x\ny"
    /\ file_lines = <<"x\n", "y\n", "c = 3\n">>

\* message i is an assistant turn asking for a test execution (run_test,
\* run_relevant_tests, or run_bash_cmd with a test-like command) that was
\* dispatched: the tool was registered, so the next message is its outcome
TestCallAt(i) ==
    LET m == id_to_message[i]
    IN  /\ i < Len(id_to_message)
        /\ \/ IsCallTo(m, TestNames)
           \/ /\ IsCallTo(m, {"run_bash_cmd"})
              /\ IsTestCommandOf[DictGet(ParseTable[m.content].arguments, "command", "")]
        /\ ~Contains(id_to_message[i + 1].content, "Unknown function")

\* C28: run returns through an accepted finish only if the most recently
\* dispatched test-execution call completed and reported no failure: its
\* outcome in the log is the observation of a text without failure token.
C28_FinishOnlyAfterPassingTest ==
    pc = "idle" /\ outcome = "finish" =>
        LET T == {i \in 1..Len(id_to_message) : TestCallAt(i)}
        IN  /\ T # {}
            /\ LET last == CHOOSE i \in T : \A j \in T : j <= i
               IN  IsObservationOf(id_to_message[last + 1], ReturnTexts \ FailureTexts)

\* C29: every replace_in_file call whose returned text contains the marker
\* "Successfully replaced" sets made_edit = true and ran_tests_after_edit =
\* false, whatever else the text contains; no other tool call and no failed
\* edit sets made_edit.
C29_SuccessMarkerSetsEdit ==
    /\ [][CallStep({"replace_in_file"}, SuccessTexts) =>
              made_edit' /\ ~ran_tests_after_edit']_vars
    /\ [][~made_edit /\ made_edit' => CallStep({"replace_in_file"}, SuccessTexts)]_vars

\* the text whose observation the step appended
ObservedText ==
    LET c == id_to_message'[Len(id_to_message) + 2].content
    IN  SubSeq(c, Len("Observation: ") + 1, Len(c))

\* C30: every recognized test-execution call that returns sets
\* last_test_had_failure to whether the returned text has a failure token,
\* sets saw_failing_test when it has, sets ran_tests_after_edit = true
\* exactly when made_edit is true, and leaves made_edit unchanged.
C30_TestCallUpdatesFlags ==
    [][TestStep =>
          /\ last_test_had_failure' = HasTestFailure(ObservedText)
          /\ saw_failing_test' = (saw_failing_test \/ HasTestFailure(ObservedText))
          /\ ran_tests_after_edit' = made_edit
          /\ made_edit' = made_edit]_vars

C30_Witness ==
    /\ pc = "running" /\ Len(Seg) >= 6
    /\ IsCallTo(Seg[Len(Seg) - 1], {"run_bash_cmd"})
    /\ IsObservationOf(Seg[Len(Seg)], CleanTexts)
    /\ made_edit /\ ran_tests_after_edit /\ saw_failing_test /\ ~last_test_had_failure

\* C31: a step that is neither a replace_in_file call reporting success nor
\* a recognized test-execution call that returned leaves made_edit,
\* ran_tests_after_edit, saw_failing_test and last_test_had_failure
\* unchanged: any other tool call, a run_bash_cmd with a command that runs
\* no test, an unknown tool, a tool that raises, a parse failure, an LLM
\* failure and a rejected finish.
C31_OtherStepsKeepFlags ==
    [][~CallStep({"replace_in_file"}, SuccessTexts) /\ ~TestStep =>
          /\ made_edit' = made_edit
          /\ ran_tests_after_edit' = ran_tests_after_edit
          /\ saw_failing_test' = saw_failing_test
          /\ last_test_had_failure' = last_test_had_failure]_vars

C31_Witness ==
    /\ pc = "running" /\ Len(Seg) >= 4
    /\ IsCallTo(Seg[Len(Seg) - 1], {"run_bash_cmd"})
    /\ ~IsTestCommand(DictGet(ParseTable[Seg[Len(Seg) - 1].content].arguments, "command", ""))
    /\ IsObservationOf(Seg[Len(Seg)], FailureTexts)
    /\ made_edit /\ ~ran_tests_after_edit /\ ~saw_failing_test /\ ~last_test_had_failure

\* the guards a finish call would fail in the current state
FailedGuards ==
    {g \in 1..4 : \/ g = 1 /\ ~saw_failing_test
                  \/ g = 2 /\ ~made_edit
                  \/ g = 3 /\ ~ran_tests_after_edit
                  \/ g = 4 /\ last_test_had_failure}

\* the rejection text of each guard, in the order of the checks
RejectionOf == <<RejectNoFailingTest, RejectNoEdit, RejectNoTests, RejectFailing>>

\* C32: a parsed finish call that fails several guards appends, after the
\* assistant message, exactly one user message: the rejection of the first
\* failing check in the order saw_failing_test, made_edit,
\* ran_tests_after_edit, last_test_had_failure; the finish handler is not
\* invoked (the run stays in its loop and returns nothing).
C32_FirstFailingGuardOnly ==
    [][SomeFinishCall /\ Cardinality(FailedGuards) >= 2 =>
          /\ Len(id_to_message') = Len(id_to_message) + 2
          /\ id_to_message'[Len(id_to_message) + 1].role = "assistant"
          /\ id_to_message'[Len(id_to_message) + 2].role = "user"
          /\ id_to_message'[Len(id_to_message) + 2].content =
                RejectionOf[CHOOSE g \in FailedGuards : \A h \in FailedGuards : g <= h]
          /\ pc' = "running" /\ outcome' = "none" /\ result' = result]_vars

C32_Witness ==
    /\ pc = "running" /\ Len(Seg) >= 2
    /\ IsCallTo(Seg[Len(Seg) - 1], {"finish"})
    /\ Seg[Len(Seg)].content = RejectNoTests
    /\ FailedGuards = {3, 4}

\* C33: when the model's output has a complete example block in its
\* reasoning and then the real block, the call parsed from what generate
\* returns (the call the loop dispatches) is the second block: its name and
\* its arguments.
C33_LastBlockDispatched ==
    \A i \in 1..Len(parses) :
        \A c \in TwoBlockCalls :
            create_calls[i].answer.output_text = TwoBlockText[c] =>
                /\ generated[i].ok
                /\ parses[i].ok
                /\ parses[i].name = Strip(c[2])
                /\ parses[i].arguments = ExpectedArgs(c[3])

\* a loop iteration in which generate returned `response`
StepWith(response) ==
    \/ ParseFails(response)
    \/ FinishCall(response)
    \/ UnknownTool(response)
    \/ \E out \in ToolOutcomes(ParseTable[response].name, ParseTable[response].arguments) :
           ToolCall(response, out)

C34_ResponseLogged ==
    [][\A response \in Responses :
          StepWith(response) =>
              /\ Len(id_to_message') > Len(id_to_message)
              /\ SubSeq(id_to_message', 1, Len(id_to_message)) = id_to_message
              /\ id_to_message'[Len(id_to_message) + 1].role = "assistant"
              /\ id_to_message'[Len(id_to_message) + 1].content = response]_vars

C34_ParseFailureCorrected ==
    [][/\ step' = step + 1
       /\ Len(id_to_message') > Len(id_to_message)
       /\ id_to_message'[Len(id_to_message) + 1].role = "assistant"
       /\ ~ParseTable[id_to_message'[Len(id_to_message) + 1].content].ok
       => /\ Len(id_to_message') = Len(id_to_message) + 2
          /\ id_to_message'[Len(id_to_message) + 2].role = "user"
          /\ id_to_message'[Len(id_to_message) + 2].content =
                ParseErrorMessage("No valid function call found")
          /\ pc' = "running" /\ outcome' = "none"
          /\ max_steps' = max_steps]_vars

\* C34: every response generate returns is appended unchanged as an
\* assistant message right after the messages already in the log, whether
\* it parses or not; when it does not parse, exactly one user message with
\* the corrective text follows it and the run stays in its loop with one
\* more step counted.
C34_ResponseLoggedBeforeParse == C34_ResponseLogged /\ C34_ParseFailureCorrected

C34_Witness ==
    /\ pc = "running" /\ Len(Seg) >= 4 /\ step < max_steps
    /\ Seg[Len(Seg) - 1].role = "assistant"
    /\ Seg[Len(Seg) - 1].content = RespNoCall
    /\ Seg[Len(Seg)].role = "user"
    /\ Contains(Seg[Len(Seg)].content, "Error parsing function call")
    /\ IsCallTo(Seg[Len(Seg) - 3], {"run_test"})

LLMErrorTexts == {LLMErrorMessage(e) : e \in LLMErrors}

\* the step appended the error message of a failed generate call
LLMErrorStep ==
    \E i \in (Len(id_to_message) + 1)..Len(id_to_message') :
        id_to_message'[i].content \in LLMErrorTexts

\* every generate call of the active (or last) run failed
AllCallsFailed ==
    /\ Len(Seg) = llm_calls
    /\ \A i \in 1..Len(Seg) : Seg[i].role = "user" /\ Seg[i].content \in LLMErrorTexts

C35_FailedCallStep ==
    [][LLMErrorStep =>
          /\ Len(id_to_message') = Len(id_to_message) + 1
          /\ id_to_message'[Len(id_to_message')].role = "user"
          /\ step' = step + 1 /\ llm_calls' = llm_calls + 1
          /\ pc' = "running" /\ outcome' = "none"
          /\ made_edit' = made_edit
          /\ ran_tests_after_edit' = ran_tests_after_edit
          /\ saw_failing_test' = saw_failing_test
          /\ last_test_had_failure' = last_test_had_failure]_vars

C35_AllFailedRun ==
    [](pc = "idle" /\ runs > 0 /\ AllCallsFailed =>
          /\ outcome = "max_steps"
          /\ result = "Max steps reached"
          /\ llm_calls = max_steps)

\* C35: a failed generate call appends exactly one message, a user message
\* with the error text, and no assistant message; no tool result is logged
\* and no guard flag changes; the step is counted and the run stays in its
\* loop; a run all of whose generate calls fail returns "Max steps reached"
\* after max_steps calls.
C35_LLMFailureStep == C35_FailedCallStep /\ C35_AllFailedRun

C35_Witness ==
    /\ pc = "idle" /\ outcome = "max_steps" /\ result = "Max steps reached"
    /\ max_steps >= 3 /\ AllCallsFailed

\* C36: in every reachable state last_test_had_failure implies
\* saw_failing_test, and no step (of a run, between runs or starting a
\* run) takes saw_failing_test from true to false.
C36_SawFailingTestSticky ==
    /\ [](last_test_had_failure => saw_failing_test)
    /\ [][saw_failing_test => saw_failing_test']_vars

C36_Witness ==
    /\ runs = 2 /\ pc = "running" /\ start_guard[3]
    /\ saw_failing_test /\ ~last_test_had_failure
    /\ Len(Seg) >= 2 /\ IsCallTo(Seg[Len(Seg) - 1], TestNames)
    /\ IsObservationOf(Seg[Len(Seg)], CleanTexts)

\* positions in the log of the replace_in_file calls that reported success
SuccessfulEdits ==
    {i \in 1..(Len(id_to_message) - 1) :
        /\ IsCallTo(id_to_message[i], {"replace_in_file"})
        /\ IsObservationOf(id_to_message[i + 1], SuccessTexts)}

\* positions in the log of the recognized test-execution calls that returned
\* a text with (failing = TRUE) or without a failure token
TestCallsShowing(failing) ==
    {i \in 1..(Len(id_to_message) - 1) :
        /\ TestCallAt(i)
        /\ IsObservationOf(id_to_message[i + 1],
                           IF failing THEN FailureTexts ELSE ReturnTexts \ FailureTexts)}

\* C37: on an agent constructed with all flags false, when run returns
\* through an accepted finish the log holds a successful edit, a recognized
\* test call whose output showed a failure token, and after it a recognized
\* test call whose output showed none and which comes after every
\* successful edit.
C37_FinishNeedsReproEditRetest ==
    pc = "idle" /\ outcome = "finish" =>
        /\ SuccessfulEdits # {}
        /\ \E i \in TestCallsShowing(TRUE), j \in TestCallsShowing(FALSE) :
               /\ i < j
               /\ \A e \in SuccessfulEdits : e < j

\* a loop iteration in which a finish call passed the four guards
AcceptedFinishStep == GuardsPass /\ \E response \in AllResponses : FinishCall(response)

\* a loop iteration in which generate raised
FailedCallStep == \E e \in LLMErrors : LLMFails(e)

\* the generate calls of the run that raised, by their messages in the log
FailedCalls ==
    Cardinality({i \in 1..Len(Seg) :
                    Seg[i].role = "user" /\ Seg[i].content \in LLMErrorTexts})

\* the run ended in a finish call that passed the guards
EndedByFinish == pc = "idle" /\ outcome \in {"finish", "raised"}

C38_PerIteration ==
    [][step' = step + 1 =>
          LET n == Len(id_to_message)
              grown == Len(id_to_message') - n
          IN  /\ SubSeq(id_to_message', 1, n) = id_to_message
              /\ IF FailedCallStep
                 THEN grown = 1 /\ id_to_message'[n + 1].role = "user"
                 ELSE IF AcceptedFinishStep
                 THEN grown = 1 /\ id_to_message'[n + 1].role = "assistant"
                 ELSE /\ grown = 2
                      /\ id_to_message'[n + 1].role = "assistant"
                      /\ id_to_message'[n + 2].role = "user"]_vars

C38_RunGrowth ==
    [](pc = "idle" /\ runs > 0 =>
          Len(Seg) = FailedCalls + 2 * (llm_calls - FailedCalls)
                     - (IF EndedByFinish THEN 1 ELSE 0))

C38_AssistantAnswered ==
    [](\A i \in 1..Len(Seg) :
          Seg[i].role = "assistant" =>
              \/ i < Len(Seg) /\ Seg[i + 1].role = "user"
              \/ i = Len(Seg) /\ EndedByFinish)

\* C38: a loop iteration appends one user message when the generate call
\* fails, one assistant message when a finish call passes the guards, and
\* otherwise an assistant message and then a user message; a run with f
\* failed and s successful generate calls has appended f + 2s messages, one
\* less when it ended in a finish that passed the guards; every assistant
\* message of the run is followed by a user message, except that finish.
C38_LogGrowth == C38_PerIteration /\ C38_RunGrowth /\ C38_AssistantAnswered

C38_Witness ==
    /\ pc = "idle" /\ outcome = "finish"
    /\ llm_calls >= 4 /\ Len(Seg) = 2 * llm_calls - 1
    /\ Seg[Len(Seg)].role = "assistant"

====
